---- MODULE Spec2Model ----
(***************************************************************************)
(* A state-machine model of the home-dashboard collector:                  *)
(*   - the Tuya connection manager and poller (tuya-service.ts),           *)
(*   - the Tuya, HAA and wall-connector sample buffers and their           *)
(*     15-minute aggregation (tuya-service.ts, haa-service.ts, index.ts,   *)
(*     wall-connector-service.ts),                                         *)
(*   - the price service and its holiday cache (the price-service code     *)
(*     that follows the type declarations in tuya-model.ts, and            *)
(*     holiday-service.ts).                                                *)
(* Node runs the program on one event loop: every action below is one      *)
(* macrotask (a timer callback, a transport event, a settled network call) *)
(* together with all the synchronous code and promise continuations it     *)
(* runs before the loop is free again.                                     *)
(***************************************************************************)
EXTENDS Integers, Sequences, FiniteSets, Bags, TLC

(***************************************************************************)
(* Bounds of the model.                                                    *)
(***************************************************************************)
\* connection objects (TuyaDeviceConnection + TuyAPI) ever created
MaxGen == 2
\* polling loops (setInterval closures) started on one connection object
MaxPollers == 2
\* connect sequences (find, connect) in flight on one connection object
MaxInflight == 2
\* refresh() calls not yet settled on one transport
MaxRefresh == 2
\* consecutive failed reconnect attempts that are counted exactly
MaxFails == 2
\* connection objects created while the connection life cycle is explored
MaxConnGen == 1

\* samples ingested in all (Tuya data events, HAA posts, wall-connector polls)
MaxIngest == 3
\* raw_wall_connector points written
MaxRaw == 4

(***************************************************************************)
(* Program constants of tuya-service.ts.                                   *)
(***************************************************************************)
INITIAL_BACKOFF_DELAY == 1000
MAX_BACKOFF_DELAY == 300000
\* BACKOFF_MULTIPLIER = 1.5 = BackoffMulNum / BackoffMulDen
BackoffMulNum == 3
BackoffMulDen == 2

\* ids of config.tuyaDevices, in the order of the array
TuyaOrder == <<"d1", "d2">>
TuyaIds == {TuyaOrder[i] : i \in 1..Len(TuyaOrder)}
\* the devices whose connection life cycle SpecTuya explores
ConnIds == {"d1"}

(***************************************************************************)
(* Time is counted in units of 100 ms (Date.now() / 100), so that a        *)
(* sample or a flush can fall between two whole minutes.  Measured values  *)
(* are kept as the integers the devices send: dps 19 in 0.1 W, dps 20 in   *)
(* 0.1 V, dps 18 in mA.  An energy is kept as the numerator num of         *)
(* num / EnergyDen Wh: value / 10 W times duration / 10 s, over 3600.      *)
(***************************************************************************)
MinuteTicks == 600
EnergyDen == 10 * 10 * 3600
\* the values Date.now() takes in the model
ClockValues == {0, 2, 36002}
\* dps objects of a 'data' / 'dp-refresh' event: a key holds <<value>>, or
\* Undef when it is absent (p: dps["19"], v: dps["20"], c: dps["18"])
Undef == <<>>
TuyaPayloads ==
  { [p |-> <<10000>>, v |-> Undef, c |-> Undef],
    [p |-> <<5000>>, v |-> <<2300>>, c |-> <<500>>],
    [p |-> Undef, v |-> <<2310>>, c |-> Undef] }
\* HAA: device ids, and the fields parseFloat yields for a posted body
HaaIds == {"1"}
\* a consumption field is <<number>>, or NaN when parseFloat finds no number
NaN == <<>>
HaaVoltages == {230}
HaaCurrents == {2}
HaaConsumptions == {<<0>>, <<1>>, <<2>>, NaN}
\* wall connector: the vitals of a poll response that the service reads
WcVitals ==
  { [contactor_closed |-> TRUE, currentA_a |-> 16, voltageA_v |-> 230],
    [contactor_closed |-> FALSE, currentA_a |-> 0, voltageA_v |-> 231] }

NoConn == 0
NoId == "none"
NoTimer == 0
NoData == <<>>
Gens == 1..MaxGen

Min(a, b) == IF a <= b THEN a ELSE b
Max(a, b) == IF a >= b THEN a ELSE b

RemoveAt(s, i) == SubSeq(s, 1, i - 1) \o SubSeq(s, i + 1, Len(s))

RECURSIVE SumSeq(_)
SumSeq(s) == IF s = <<>> THEN 0 ELSE Head(s) + SumSeq(Tail(s))

VARIABLES
  \* ---- tuya-service.ts ----
  tuyaConfig,        \* getConfig().tuyaDevices: id -> "absent" | "ok" | "badkey"
  deviceConnections, \* Map id -> connection object (its number), NoConn when absent
  nextGen,           \* number of the next connection object to be created
  connId,            \* config.id captured by the closures of connection object g
  connected,         \* connection.connected
  backoffDelay,      \* connection.backoffDelay (ms)
  reconnectTimeout,  \* delay (ms) of the pending reconnect timer, NoTimer when none
  transport,         \* socket of connection.device: "closed" | "open" | "closing"
  connecting,        \* startDeviceConnection calls in flight on g
  pollers,           \* one isPolling flag per startDevicePolling closure on g
  refreshes,         \* device.refresh() calls issued on g and not yet settled
  tuyaDeviceData,    \* Map id -> TuyaDeviceData, NoData when absent
  \* history of the connection manager (not program state)
  reconnFails,       \* consecutive failed reconnect attempts of g since 'connected'
  failArm,           \* [n, delay]: the timer armed by the n-th such failure
  removedInBackoff,  \* g was removed by disconnectDevice with its timer pending
  lateAttempt,       \* a connect sequence was started on g after its removal
  \* ---- the clock and the sample buffers ----
  now,               \* Date.now(), in units of 100 ms
  nextSample,        \* number given to the next ingested sample (history)
  flushCount,        \* per sample: the flushes that read it (history)
  deviceData,        \* haa-service.ts deviceData: id -> DeviceData
  haaLastReset,      \* per HAA id: its last reading was below the one before (history)
  wallConnectorData, \* wall-connector-service.ts wallConnectorData.readings
  pollInterval,      \* wall connector: armed setInterval handles
  isPolling,         \* wall connector: the module-level isPolling flag
  wcRequests,        \* wall connector: axios.get calls in flight
  lastCall,          \* the handler that ran in the last step, what it read and wrote
  \* ---- the price service ----
  holidays,          \* HolidayService.holidays: year -> cached list, if any
  priceRun,          \* the updatePrices / storePrices call in progress
  written,           \* bag of the points the current storePrices call wrote
  calcLog,           \* calculatePrice calls of the current storePrices call
  peakLog,           \* isPeakHour calls of the current storePrices call
  absentTariffs,     \* sections that getConfig().prices lacks
  holidayFetches,    \* per year: axios.get calls of ensureHolidaysForYear (history)
  threwLog,          \* tariffs and steps whose calculation threw (the error log)
  failedYears,       \* years for which a request to the holiday API has failed
  \* ---- history of the reconciliation ----
  reconciled,        \* the device list the last connectAllDevices call read
  \* ---- history of what the services wrote to InfluxDB ----
  rawWallConnector,  \* the raw_wall_connector points, in the order written
  haaLedger,         \* per HAA device: first reading, consumption written
  initialUpdate,     \* performInitialPricesUpdate: its ranges, their points
  startup,           \* the app.listen callback: where it is, what it has set up
  powerMeter         \* updatePowerMeterData, the readings offered and persisted

tuyaVars == <<tuyaConfig, deviceConnections, nextGen, connId, connected,
              backoffDelay, reconnectTimeout, transport, connecting, pollers,
              refreshes, reconnFails, failArm, removedInBackoff, lateAttempt>>

bufVars == <<now, nextSample, flushCount, deviceData, haaLastReset,
             wallConnectorData, pollInterval, isPolling, wcRequests>>

aggVars == <<bufVars, lastCall>>

priceVars == <<holidays, priceRun, written, calcLog, peakLog, absentTariffs,
               holidayFetches, threwLog, failedYears>>

mainVars == <<startup, powerMeter>>

ledgerVars == <<rawWallConnector, haaLedger, initialUpdate>>

vars ==
  <<tuyaVars, tuyaDeviceData, aggVars, priceVars, reconciled, ledgerVars, mainVars>>

(***************************************************************************)
(* The Tuya state as one record, so that the helper functions of           *)
(* tuya-service.ts can be composed the way the code calls them.            *)
(***************************************************************************)
TuyaState ==
  [deviceConnections |-> deviceConnections, nextGen |-> nextGen,
   connId |-> connId, connected |-> connected, backoffDelay |-> backoffDelay,
   reconnectTimeout |-> reconnectTimeout, transport |-> transport,
   connecting |-> connecting, pollers |-> pollers, refreshes |-> refreshes,
   tuyaDeviceData |-> tuyaDeviceData, reconnFails |-> reconnFails,
   failArm |-> failArm, removedInBackoff |-> removedInBackoff,
   lateAttempt |-> lateAttempt]

SetTuya(S) ==
  /\ deviceConnections' = S.deviceConnections
  /\ nextGen' = S.nextGen
  /\ connId' = S.connId
  /\ connected' = S.connected
  /\ backoffDelay' = S.backoffDelay
  /\ reconnectTimeout' = S.reconnectTimeout
  /\ transport' = S.transport
  /\ connecting' = S.connecting
  /\ pollers' = S.pollers
  /\ refreshes' = S.refreshes
  /\ tuyaDeviceData' = S.tuyaDeviceData
  /\ reconnFails' = S.reconnFails
  /\ failArm' = S.failArm
  /\ removedInBackoff' = S.removedInBackoff
  /\ lateAttempt' = S.lateAttempt

EmptyTuyaData == [power |-> <<>>, voltage |-> <<>>, current |-> <<>>]

\* scheduleReconnect: looks the connection up by id, clears its timer and
\* arms a new one with its current backoffDelay.
ScheduleReconnect(S, id) ==
  LET g == S.deviceConnections[id]
  IN  IF g = NoConn THEN S
      ELSE [S EXCEPT !.reconnectTimeout[g] = S.backoffDelay[g]]

\* startDeviceConnection never rejects: its try/catch covers find() and
\* connect(), and the catch block only logs and calls scheduleReconnect.
StartDeviceConnectionRejects == FALSE

\* The catch block of the reconnect timer callback, which runs only when
\* the awaited startDeviceConnection rejects.
ReconnectCatch(S, g) ==
  IF StartDeviceConnectionRejects
  THEN ScheduleReconnect(
         [S EXCEPT !.backoffDelay[g] =
            Min((@ * BackoffMulNum) \div BackoffMulDen, MAX_BACKOFF_DELAY)],
         S.connId[g])
  ELSE S

\* startDeviceConnection up to its first await: find() is in flight.
StartDeviceConnection(S, g, isReconnect) ==
  [S EXCEPT !.connecting[g] =
     Append(@, [phase |-> "find", reconnect |-> isReconnect])]

\* startDevicePolling: a new closure (isPolling = false) and a new interval
\* on the connection currently tracked for the id; nothing clears it.
StartDevicePolling(S, id) ==
  LET g == S.deviceConnections[id]
  IN  IF g = NoConn THEN S
      ELSE [S EXCEPT !.pollers[g] = Append(@, FALSE)]

\* a 'connected' handler that resets the delay to nothing
OnConnectedZeroBackoff(S, g) ==
  StartDevicePolling(
    [S EXCEPT !.connected[g] = TRUE, !.backoffDelay[g] = 0,
              !.reconnFails[g] = 0],
    S.connId[g])

\* a 'connected' handler that does not call startDevicePolling
OnConnectedNoPolling(S, g) ==
  [S EXCEPT !.connected[g] = TRUE,
            !.backoffDelay[g] = INITIAL_BACKOFF_DELAY,
            !.reconnFails[g] = 0]

\* device.on("connected")
OnConnected(S, g) ==
  StartDevicePolling(
    [S EXCEPT !.connected[g] = TRUE,
              !.backoffDelay[g] = INITIAL_BACKOFF_DELAY,
              !.reconnFails[g] = 0],
    S.connId[g])

\* a 'disconnected' handler that does not schedule a reconnect
OnDisconnectedNoRetry(S, g) == [S EXCEPT !.connected[g] = FALSE]

\* device.on("disconnected")
OnDisconnected(S, g) ==
  ScheduleReconnect([S EXCEPT !.connected[g] = FALSE], S.connId[g])

\* device.on("error"): records lastError (not modelled) and schedules a
\* reconnect; connection.connected is left as it is.
OnError(S, g) == ScheduleReconnect(S, S.connId[g])

\* device.disconnect() of the transport: an open socket is closed and its
\* 'disconnected' event is delivered either inside the call (sync) or later.
TransportDisconnect(S, g, sync) ==
  IF S.transport[g] # "open" THEN S
  ELSE IF sync THEN OnDisconnected([S EXCEPT !.transport[g] = "closed"], g)
  ELSE [S EXCEPT !.transport[g] = "closing"]

\* disconnectDevice
DisconnectDevice(S, id, sync) ==
  LET g == S.deviceConnections[id]
  IN  IF g = NoConn THEN S
      ELSE LET S1 == [S EXCEPT !.reconnectTimeout[g] = NoTimer,
                               !.removedInBackoff[g] =
                                  S.reconnectTimeout[g] # NoTimer]
               S2 == TransportDisconnect(S1, g, sync)
           IN  [S2 EXCEPT !.deviceConnections[id] = NoConn,
                          !.tuyaDeviceData[id] = NoData]

\* connectDevice: new TuyAPI(...) throws for an unusable key, and the catch
\* block then calls scheduleReconnect.
ConnectDevice(S, id, ctorThrows) ==
  IF ctorThrows THEN ScheduleReconnect(S, id)
  ELSE LET g == S.nextGen
           S1 == [S EXCEPT !.nextGen = g + 1,
                           !.connId[g] = id,
                           !.connected[g] = FALSE,
                           !.backoffDelay[g] = INITIAL_BACKOFF_DELAY,
                           !.deviceConnections[id] = g,
                           !.tuyaDeviceData[id] = EmptyTuyaData]
       IN  StartDeviceConnection(S1, g, FALSE)

RECURSIVE DisconnectRemoved(_, _, _, _)
DisconnectRemoved(S, cfg, i, sync) ==
  IF i > Len(TuyaOrder) THEN S
  ELSE LET id == TuyaOrder[i]
       IN  DisconnectRemoved(
             IF S.deviceConnections[id] # NoConn /\ cfg[id] = "absent"
             THEN DisconnectDevice(S, id, sync) ELSE S,
             cfg, i + 1, sync)

\* a second loop of connectAllDevices without the deviceConnections.has test
RECURSIVE ConnectEvery(_, _, _)
ConnectEvery(S, cfg, i) ==
  IF i > Len(TuyaOrder) THEN S
  ELSE LET id == TuyaOrder[i]
       IN  ConnectEvery(
             IF cfg[id] # "absent" /\ S.nextGen \in Gens
             THEN ConnectDevice(S, id, cfg[id] = "badkey") ELSE S,
             cfg, i + 1)

\* the second loop of connectAllDevices
RECURSIVE ConnectMissing(_, _, _)
ConnectMissing(S, cfg, i) ==
  IF i > Len(TuyaOrder) THEN S
  ELSE LET id == TuyaOrder[i]
       IN  ConnectMissing(
             IF cfg[id] # "absent" /\ S.deviceConnections[id] = NoConn
             THEN ConnectDevice(S, id, cfg[id] = "badkey") ELSE S,
             cfg, i + 1)

\* connectAllDevices
ConnectAllDevices(S, cfg, sync) ==
  ConnectMissing(DisconnectRemoved(S, cfg, 1, sync), cfg, 1)

RECURSIVE DisconnectAllDevices(_, _, _)
DisconnectAllDevices(S, i, sync) ==
  IF i > Len(TuyaOrder) THEN S
  ELSE DisconnectAllDevices(DisconnectDevice(S, TuyaOrder[i], sync), i + 1, sync)

\* number of connection objects connectAllDevices would create
NewObjects(S, cfg) ==
  Cardinality({id \in TuyaIds : cfg[id] = "ok" /\ S.deviceConnections[id] = NoConn})

(***************************************************************************)
(* Initial state: the module state set up by initTuyaService.              *)
(***************************************************************************)
TuyaConfigs(ids) ==
  {c \in [TuyaIds -> {"absent", "ok", "badkey"}] :
     \A id \in TuyaIds \ ids : c[id] = "absent"}

InitTuya ==
  /\ tuyaConfig \in TuyaConfigs(ConnIds)
  /\ deviceConnections = [id \in TuyaIds |-> NoConn]
  /\ nextGen = 1
  /\ connId = [g \in Gens |-> NoId]
  /\ connected = [g \in Gens |-> FALSE]
  /\ backoffDelay = [g \in Gens |-> INITIAL_BACKOFF_DELAY]
  /\ reconnectTimeout = [g \in Gens |-> NoTimer]
  /\ transport = [g \in Gens |-> "closed"]
  /\ connecting = [g \in Gens |-> <<>>]
  /\ pollers = [g \in Gens |-> <<>>]
  /\ refreshes = [g \in Gens |-> 0]
  /\ tuyaDeviceData = [id \in TuyaIds |-> NoData]
  /\ reconnFails = [g \in Gens |-> 0]
  /\ failArm = [g \in Gens |-> [n |-> 0, delay |-> INITIAL_BACKOFF_DELAY]]
  /\ removedInBackoff = [g \in Gens |-> FALSE]
  /\ lateAttempt = [g \in Gens |-> FALSE]

NoCall == <<>>
\* the ledger of a device that has not posted a reading yet
NoLedger == <<>>
\* performInitialPricesUpdate has not been called
NoUpdate == <<>>
\* is the handler `op` the one that ran in the last step?
IsCall(op) == lastCall # NoCall /\ lastCall.op = op

\* initHAAService, initWallConnectorService (which arms the poll interval)
InitAgg ==
  /\ now = 0
  /\ nextSample = 1
  /\ flushCount = [i \in 1..MaxIngest |-> 0]
  /\ deviceData = [id \in HaaIds |-> NoData]
  /\ haaLastReset = [id \in HaaIds |-> FALSE]
  /\ wallConnectorData = <<>>
  /\ pollInterval = 1
  /\ isPolling = FALSE
  /\ wcRequests = 0
  /\ lastCall = NoCall
  /\ reconciled = NoCall
  /\ rawWallConnector = <<>>
  /\ haaLedger = [id \in HaaIds |-> NoLedger]
  /\ initialUpdate = NoUpdate

(***************************************************************************)
(* The price service.  A date is [day, min]: day 0 is Tuesday 2024-12-31,  *)
(* day 1 is Wednesday 2025-01-01 (a public holiday), day 4 is Saturday     *)
(* 2025-01-04; min is the minute of the day.  A market price is <<n>> with *)
(* n in PLN/MWh, or Undef.  Components of the configuration are counted in *)
(* 0.00001 PLN, vat in percent, a calculated price in 0.0000001 PLN/kWh.   *)
(***************************************************************************)
\* the values of enum TariffType, in the order of Object.values
TariffType ==
  <<"G11", "G12", "G12W", "G12R", "DYNAMIC_G11", "DYNAMIC_G12",
    "DYNAMIC_G12W", "DYNAMIC_G12R", "TGE_RAW">>
Tariffs == {TariffType[i] : i \in 1..Len(TariffType)}

Days == 0..4
Years == {2024, 2025}
\* `now` of the updatePrices runs (cron "5 * * * *") that are explored
UpdateTimes == {[day |-> 0, min |-> 605], [day |-> 3, min |-> 1385]}
\* the dates getLastSavedPrice resolves with that are explored
LastSavedPrices == {[day |-> 0, min |-> 481], [day |-> 1, min |-> 0]}
\* `now` of the performInitialPricesUpdate calls whose loop is explored
InitialNows == {[day |-> 1, min |-> 605]}

\* date-fns and Date
GetFullYear(date) == IF date.day <= 0 THEN 2024 ELSE 2025
GetDay(date) == (date.day + 2) % 7
GetHours(date) == date.min \div 60
AddMinutes(date, n) ==
  [day |-> date.day + ((date.min + n) \div 1440), min |-> (date.min + n) % 1440]
AddDays(date, n) == [date EXCEPT !.day = @ + n]
StartOfDay(date) == [date EXCEPT !.min = 0]
\* hourStart.setMinutes(0, 0, 0)
HourStart(date) == [date EXCEPT !.min = @ - (@ % 60)]
\* currentDate <= endDate
DateLeq(a, b) == a.day < b.day \/ (a.day = b.day /\ a.min <= b.min)
\* format(date, "yyyy-MM-dd'T'HH:mm:ss'Z'"): the day, the hour, the minute
Format(date) == <<date.day, date.min \div 60, date.min % 60>>

\* getConfig().prices, with the values of config.example.yaml
BaseComponents(basePrice, oplataSieciowa) ==
  [basePrice |-> basePrice, akcyza |-> 500, oplataSieciowa |-> oplataSieciowa,
   oplataJakosciowa |-> 3140, oplataKogeneracyjna |-> 618, vat |-> 23]
DynamicComponents(oplataSieciowa) ==
  [oplataSieciowa |-> oplataSieciowa, oplataJakosciowa |-> 3140,
   oplataKogeneracyjna |-> 618, oplataHandlowa |-> 14990, vat |-> 23]
staticTariffs ==
  [g11 |-> BaseComponents(50000, 34690),
   g12 |-> [peak |-> BaseComponents(50000, 38270),
            offPeak |-> BaseComponents(47210, 8270)],
   g12w |-> [peak |-> BaseComponents(50000, 40110),
             offPeak |-> BaseComponents(49570, 8450)],
   g12r |-> [peak |-> BaseComponents(50000, 36230),
             offPeak |-> BaseComponents(37960, 8780)]]
dynamicTariffs ==
  [g11 |-> DynamicComponents(34690),
   g12 |-> [peak |-> DynamicComponents(38270),
            offPeak |-> DynamicComponents(8270)],
   g12w |-> [peak |-> DynamicComponents(40110),
             offPeak |-> DynamicComponents(8450)],
   g12r |-> [peak |-> DynamicComponents(36230),
             offPeak |-> DynamicComponents(8780)]]

\* the price lists fetchTGEPrices can return, as the Map storePrices builds
\* from them (key: Format of the entry's date): none, one price per hour
\* (some hours missing, some at zero, some negative), and prices per hour
\* and per quarter of an hour
HourlyPrice(h) == IF h % 4 = 0 THEN 400 ELSE IF h % 4 = 1 THEN 0 ELSE 0 - 50
HourlyPrices ==
  [k \in {<<d, h, 0>> : d \in Days, h \in {x \in 0..23 : x % 4 # 3}} |->
     <<HourlyPrice(k[2])>>]
QuarterPrices ==
  [k \in {<<d, h, m>> : d \in Days, h \in {x \in 0..23 : x % 4 # 3},
                        m \in {0, 15, 30}} |->
     IF k[3] = 0 THEN <<HourlyPrice(k[2])>>
     ELSE IF k[3] = 15 THEN <<0>> ELSE <<300>>]
TgeResponses == {<<>>, HourlyPrices, QuarterPrices}

\* the list https://date.nager.at answers for a year (days of that year)
HolidayResponse(year) == IF year = 2024 THEN {0 - 6, 0 - 5} ELSE {1, 6}

NoDate == [day |-> 0, min |-> 0]
\* no step of storePrices has been started
NoStep == <<>>
IdleRun ==
  [phase |-> "idle", startDate |-> NoDate, endDate |-> NoDate,
   currentDate |-> NoDate, tgePriceMap |-> <<>>, pending |-> {},
   step |-> NoStep]

\* The configurations that loadConfig (yaml.load, nothing validated) can
\* hand to the price service: the complete one of config.example.yaml, and
\* two that lack the components of one tariff.
PriceConfigs ==
  {{}, {<<"staticTariffs", "g12">>}, {<<"dynamicTariffs", "g11">>}}

\* initPriceService: a new HolidayService, nothing cached
InitPrice ==
  /\ holidays = [y \in Years |-> [cached |-> FALSE, list |-> {}]]
  /\ priceRun = IdleRun
  /\ written = EmptyBag
  /\ calcLog = {}
  /\ peakLog = {}
  /\ absentTariffs = {}
  /\ holidayFetches = [y \in Years |-> 0]
  /\ threwLog = {}
  /\ failedYears = {}

(***************************************************************************)
(* The start of the program and the power meter.  A reading of the power   *)
(* meter has the timestamp day * SlotsPerDay + slot; the days explored are *)
(* 0..MaxDay - 1, all of them within the 30 days getLastSavedReading looks *)
(* back, and `new Date()` is the end of the last one.                      *)
(***************************************************************************)
MaxDay == 2
SlotsPerDay == 2

PmNow == MaxDay * SlotsPerDay
PmTimestamps == 0..(PmNow - 1)

\* startOfDay
PmStartOfDay(ts) == ts - (ts % SlotsPerDay)

\* startOfDay(subDays(new Date(), 30))
ThirtyDaysAgo == PmStartOfDay(PmNow - MaxDay * SlotsPerDay)

\* The config.yaml files explored: the influxdb section complete or not; the
\* powerMeter section complete, with an empty field, or missing.
MainConfigs == [influxdb : BOOLEAN, powerMeter : {"ok", "incomplete", "absent"}]

\* `let config = {} as any`, and what loadConfig leaves when it fails
EmptyConfig == [influxdb |-> FALSE, powerMeter |-> "absent"]

InitMain ==
  /\ startup = [pc |-> "loadConfig", config |-> EmptyConfig,
                initialised |-> {}, schedules |-> {}]
  /\ powerMeter = [pc |-> "idle", lastReading |-> 0, currentDate |-> 0,
                   offered |-> {}, persisted |-> {}, wrote |-> {},
                   newer |-> FALSE, queryFailed |-> FALSE]

Init == InitTuya /\ InitAgg /\ InitPrice /\ InitMain

(***************************************************************************)
(* Actions of the connection manager.                                      *)
(***************************************************************************)
\* loadConfig (the CLI command "r"): getConfig() returns the new list.
ReloadTuyaConfig(ids) ==
  /\ \E c \in TuyaConfigs(ids) : c # tuyaConfig /\ tuyaConfig' = c
  /\ UNCHANGED <<deviceConnections, nextGen, connId, connected, backoffDelay,
                 reconnectTimeout, transport, connecting, pollers, refreshes,
                 tuyaDeviceData, reconnFails, failArm, removedInBackoff,
                 lateAttempt>>

\* startTuyaService: connectAllDevices against the current configuration.
StartTuyaService(cap) ==
  /\ nextGen + NewObjects(TuyaState, tuyaConfig) <= cap + 1
  /\ \E sync \in BOOLEAN :
       SetTuya(ConnectAllDevices(TuyaState, tuyaConfig, sync))
  /\ UNCHANGED tuyaConfig

\* refreshTuyaService: disconnectAllDevices, then connectAllDevices.
RefreshTuyaService(cap) ==
  /\ \E id \in TuyaIds : deviceConnections[id] # NoConn
  /\ \E sync \in BOOLEAN :
       LET S1 == DisconnectAllDevices(TuyaState, 1, sync)
       IN  /\ S1.nextGen + NewObjects(S1, tuyaConfig) <= cap + 1
           /\ SetTuya(ConnectAllDevices(S1, tuyaConfig, sync))
  /\ UNCHANGED tuyaConfig

\* The reconnect timer of g fires: startDeviceConnection(config, connection).
ReconnectTimerFire(g) ==
  /\ reconnectTimeout[g] # NoTimer
  /\ Len(connecting[g]) < MaxInflight
  /\ SetTuya(StartDeviceConnection(
       [TuyaState EXCEPT !.reconnectTimeout[g] = NoTimer,
                         !.lateAttempt[g] =
                            @ \/ (deviceConnections[connId[g]] # g
                                  /\ tuyaConfig[connId[g]] = "absent")],
       g, TRUE))
  /\ UNCHANGED tuyaConfig

\* find() of the i-th sequence resolves: connect() is called.
FindResolve(g, i) ==
  /\ i \in 1..Len(connecting[g])
  /\ connecting[g][i].phase = "find"
  /\ connecting' = [connecting EXCEPT ![g][i].phase = "connect"]
  /\ UNCHANGED <<tuyaConfig, deviceConnections, nextGen, connId, connected,
                 backoffDelay, reconnectTimeout, transport, pollers, refreshes,
                 tuyaDeviceData, reconnFails, failArm, removedInBackoff,
                 lateAttempt>>

\* The catch block of startDeviceConnection, then what the awaiting timer
\* callback does with the outcome.
ConnectionFailed(S, g, i) ==
  LET seq == S.connecting[g][i]
      n == S.reconnFails[g]
      counted == seq.reconnect /\ n < MaxFails
      S1 == [S EXCEPT !.connecting[g] = RemoveAt(@, i),
                      !.reconnFails[g] = IF counted THEN n + 1 ELSE n]
      S2 == ScheduleReconnect(S1, S.connId[g])
      S3 == IF seq.reconnect THEN ReconnectCatch(S2, g) ELSE S2
  IN  IF counted /\ S3.deviceConnections[S.connId[g]] = g
      THEN [S3 EXCEPT !.failArm[g] =
              [n |-> n + 1, delay |-> S3.reconnectTimeout[g]]]
      ELSE S3

\* find() rejects (device not found on the network).
FindReject(g, i) ==
  /\ i \in 1..Len(connecting[g])
  /\ connecting[g][i].phase = "find"
  /\ SetTuya(ConnectionFailed(TuyaState, g, i))
  /\ UNCHANGED tuyaConfig

\* connect() rejects (handshake failed).
ConnectReject(g, i) ==
  /\ i \in 1..Len(connecting[g])
  /\ connecting[g][i].phase = "connect"
  /\ SetTuya(ConnectionFailed(TuyaState, g, i))
  /\ UNCHANGED tuyaConfig

\* connect() succeeds: the transport emits 'connected'.
ConnectResolve(g, i) ==
  /\ i \in 1..Len(connecting[g])
  /\ connecting[g][i].phase = "connect"
  /\ LET t == deviceConnections[connId[g]]
     IN  t # NoConn => Len(pollers[t]) < MaxPollers
  /\ SetTuya(OnConnected(
       [TuyaState EXCEPT !.connecting[g] = RemoveAt(@, i),
                         !.transport[g] = "open"], g))
  /\ UNCHANGED tuyaConfig

\* The socket of g closes: the transport emits 'disconnected'.
DeviceDisconnected(g) ==
  /\ transport[g] \in {"open", "closing"}
  /\ SetTuya(OnDisconnected([TuyaState EXCEPT !.transport[g] = "closed"], g))
  /\ UNCHANGED tuyaConfig

\* The transport of g emits 'error'.
DeviceError(g) ==
  /\ connId[g] # NoId
  /\ transport[g] = "open" \/ connecting[g] # <<>>
  /\ SetTuya(OnError(TuyaState, g))
  /\ UNCHANGED tuyaConfig

(***************************************************************************)
(* Actions of the poller (the doPoll closure p of connection object g).    *)
(***************************************************************************)
Polling(g) == Cardinality({p \in 1..Len(pollers[g]) : pollers[g][p]})

\* doPoll's guard: a tick does something only when it holds.
DoPollGuard(g, p) == connected[g] /\ ~pollers[g][p]

\* An interval tick of poller p that passes the guard: refresh() is issued.
PollTick(g, p) ==
  /\ p \in 1..Len(pollers[g])
  /\ DoPollGuard(g, p)
  /\ refreshes[g] < MaxRefresh
  /\ pollers' = [pollers EXCEPT ![g][p] = TRUE]
  /\ refreshes' = [refreshes EXCEPT ![g] = @ + 1]
  /\ UNCHANGED <<tuyaConfig, deviceConnections, nextGen, connId, connected,
                 backoffDelay, reconnectTimeout, transport, connecting,
                 tuyaDeviceData, reconnFails, failArm, removedInBackoff,
                 lateAttempt>>

\* refresh() resolves before the timeout.
PollResolve(g, p) ==
  /\ p \in 1..Len(pollers[g])
  /\ pollers[g][p]
  /\ pollers' = [pollers EXCEPT ![g][p] = FALSE]
  /\ refreshes' = [refreshes EXCEPT ![g] = @ - 1]
  /\ UNCHANGED <<tuyaConfig, deviceConnections, nextGen, connId, connected,
                 backoffDelay, reconnectTimeout, transport, connecting,
                 tuyaDeviceData, reconnFails, failArm, removedInBackoff,
                 lateAttempt>>

\* a catch block that only logs, whatever the error
PollFailedNeverReconnects(S, g, p, connLevel) ==
  [S EXCEPT !.pollers[g][p] = FALSE]

\* a catch block that treats every error as a connection-level failure
PollFailedAlwaysReconnects(S, g, p, connLevel) ==
  ScheduleReconnect([S EXCEPT !.pollers[g][p] = FALSE, !.connected[g] = FALSE],
                    S.connId[g])

\* a doPoll without its finally block: the flag stays set after a failure
PollFailedKeepsFlag(S, g, p, connLevel) ==
  IF connLevel
  THEN ScheduleReconnect([S EXCEPT !.connected[g] = FALSE], S.connId[g])
  ELSE S

\* doPoll's catch block; connLevel: the message is "Device poll timeout" or
\* includes ETIMEDOUT or ECONNRESET.
PollFailed(S, g, p, connLevel) ==
  LET S1 == [S EXCEPT !.pollers[g][p] = FALSE]
  IN  IF connLevel
      THEN ScheduleReconnect([S1 EXCEPT !.connected[g] = FALSE], S.connId[g])
      ELSE S1

\* refresh() rejects with a connection-level error.
PollRejectConn(g, p) ==
  /\ p \in 1..Len(pollers[g])
  /\ pollers[g][p]
  /\ SetTuya(PollFailed([TuyaState EXCEPT !.refreshes[g] = @ - 1], g, p, TRUE))
  /\ UNCHANGED tuyaConfig

\* refresh() rejects with another error.
PollRejectOther(g, p) ==
  /\ p \in 1..Len(pollers[g])
  /\ pollers[g][p]
  /\ SetTuya(PollFailed([TuyaState EXCEPT !.refreshes[g] = @ - 1], g, p, FALSE))
  /\ UNCHANGED tuyaConfig

\* The POLL_TIMEOUT timer wins the race; refresh() itself stays unsettled.
PollTimeout(g, p) ==
  /\ p \in 1..Len(pollers[g])
  /\ pollers[g][p]
  /\ SetTuya(PollFailed(TuyaState, g, p, TRUE))
  /\ UNCHANGED tuyaConfig

\* A refresh() that lost the race settles; nobody awaits it any more.
LateRefreshSettle(g) ==
  /\ refreshes[g] > Polling(g)
  /\ refreshes' = [refreshes EXCEPT ![g] = @ - 1]
  /\ UNCHANGED <<tuyaConfig, deviceConnections, nextGen, connId, connected,
                 backoffDelay, reconnectTimeout, transport, connecting, pollers,
                 tuyaDeviceData, reconnFails, failArm, removedInBackoff,
                 lateAttempt>>

\* the other parts of the program stand still
OnlyTuya ==
  lastCall' = NoCall /\ UNCHANGED <<bufVars, priceVars, reconciled, ledgerVars, mainVars>>

\* the same, with a record of the 'connected' event that has just been
\* handled: its connection object g, the object tracked for the id of g, the
\* failed reconnect attempts before it and the polling loops there were
ConnectedSeen(g) ==
  /\ lastCall' = [op |-> "connected", g |-> g,
                  tracked |-> deviceConnections[connId[g]],
                  reconnFails |-> reconnFails[g],
                  loops |-> [h \in Gens |-> Len(pollers[h])]]
  /\ UNCHANGED <<bufVars, priceVars, reconciled, ledgerVars, mainVars>>

\* the same, with a record of the poll that has just failed: the closure p of
\* connection object g, the kind of the error, and what doPoll found
PollFailureSeen(g, p, connLevel) ==
  /\ lastCall' = [op |-> "doPoll", g |-> g, p |-> p, connLevel |-> connLevel,
                  tracked |-> deviceConnections[connId[g]] = g,
                  connected |-> connected[g],
                  backoffDelay |-> backoffDelay[g],
                  reconnectTimeout |-> reconnectTimeout[g]]
  /\ UNCHANGED <<bufVars, priceVars, reconciled, ledgerVars, mainVars>>

NextTuya ==
  \/ ReloadTuyaConfig(ConnIds) /\ OnlyTuya
  \/ StartTuyaService(MaxConnGen) /\ OnlyTuya
  \/ RefreshTuyaService(MaxConnGen) /\ OnlyTuya
  \/ \E g \in Gens : ReconnectTimerFire(g) /\ OnlyTuya
  \/ \E g \in Gens, i \in 1..MaxInflight : FindResolve(g, i) /\ OnlyTuya
  \/ \E g \in Gens, i \in 1..MaxInflight : FindReject(g, i) /\ OnlyTuya
  \/ \E g \in Gens, i \in 1..MaxInflight : ConnectReject(g, i) /\ OnlyTuya
  \/ \E g \in Gens, i \in 1..MaxInflight :
       ConnectResolve(g, i) /\ ConnectedSeen(g)
  \/ \E g \in Gens : DeviceDisconnected(g) /\ OnlyTuya
  \/ \E g \in Gens : DeviceError(g) /\ OnlyTuya
  \/ \E g \in Gens, p \in 1..MaxPollers : PollTick(g, p) /\ OnlyTuya
  \/ \E g \in Gens, p \in 1..MaxPollers : PollResolve(g, p) /\ OnlyTuya
  \/ \E g \in Gens, p \in 1..MaxPollers :
       PollRejectConn(g, p) /\ PollFailureSeen(g, p, TRUE)
  \/ \E g \in Gens, p \in 1..MaxPollers :
       PollRejectOther(g, p) /\ PollFailureSeen(g, p, FALSE)
  \/ \E g \in Gens, p \in 1..MaxPollers :
       PollTimeout(g, p) /\ PollFailureSeen(g, p, TRUE)
  \/ \E g \in Gens : LateRefreshSettle(g) /\ OnlyTuya

SpecTuya == Init /\ [][NextTuya]_vars

(***************************************************************************)
(* Claims about the connection manager and the poller.                     *)
(***************************************************************************)
RECURSIVE Pow(_, _)
Pow(b, n) == IF n = 0 THEN 1 ELSE b * Pow(b, n - 1)

\* refresh() calls of device id that are not settled yet
Outstanding(id) ==
  SumSeq([g \in Gens |-> IF connId[g] = id THEN refreshes[g] ELSE 0])

\* C1 (as claimed): at most one refresh request of a Tuya device is
\* outstanding at any time, also after the device has reconnected.
C1_AtMostOneRefresh == \A id \in TuyaIds : Outstanding(id) <= 1

\* C2 (as claimed): the timer armed by the N-th consecutive failed reconnect
\* attempt uses the delay min(1000 * 1.5^N, 300000) ms; stated without
\* fractions as delay * 2^N = min(1000 * 3^N, 300000 * 2^N).
C2_BackoffAfterFailures ==
  \A g \in Gens :
    failArm[g].delay * Pow(BackoffMulDen, failArm[g].n)
      = Min(INITIAL_BACKOFF_DELAY * Pow(BackoffMulNum, failArm[g].n),
            MAX_BACKOFF_DELAY * Pow(BackoffMulDen, failArm[g].n))

\* C3 (as claimed): a device removed by disconnectDevice while its reconnect
\* timer was pending has no reconnect timer pending afterwards, and no
\* connect sequence is started for it, as long as its id stays unconfigured.
C3_RemovedStaysCancelled ==
  \A g \in Gens :
    removedInBackoff[g] =>
      /\ ~lateAttempt[g]
      /\ tuyaConfig[connId[g]] = "absent" => reconnectTimeout[g] = NoTimer

\* has disconnectDevice taken connection object g out of deviceConnections?
Removed(g) == connId[g] # NoId /\ deviceConnections[connId[g]] # g

\* C14 (as claimed): once disconnectDevice has removed a connection, no poll
\* tick of that connection issues a refresh any more.
C14_NoPollAfterDisconnect ==
  [][\A g \in Gens : Removed(g) => refreshes'[g] <= refreshes[g]]_vars

\* C17 (as claimed): a 'disconnected' or an 'error' event of a connected
\* device leaves the connection not connected, and no poll tick issues a
\* refresh on a tracked connection while its reconnect timer is pending.
C17_EventLeavesConnected ==
  [][\A g \in Gens :
       /\ (connected[g] /\ (DeviceDisconnected(g) \/ DeviceError(g)))
            => ~connected'[g]
       /\ (reconnectTimeout[g] # NoTimer /\ ~Removed(g))
            => refreshes'[g] <= refreshes[g]]_vars

\* is a reconnect timer pending on a connection object of device id?
TimerPendingFor(id) ==
  \E g \in Gens : connId[g] = id /\ reconnectTimeout[g] # NoTimer

\* C18 (as claimed): after a failed connect attempt for a configured device
\* (new TuyAPI throws in connectDevice, find() rejects, or connect() rejects)
\* a reconnect timer is pending for that device.
C18_FailedConnectArmsTimer ==
  [][/\ \A id \in TuyaIds :
          (/\ tuyaConfig[id] = "badkey"
           /\ deviceConnections[id] = NoConn
           /\ StartTuyaService(MaxConnGen)) => TimerPendingFor(id)'
     /\ \A g \in Gens, i \in 1..MaxInflight :
          (/\ FindReject(g, i) \/ ConnectReject(g, i)
           /\ tuyaConfig[connId[g]] # "absent") => TimerPendingFor(connId[g])'
    ]_vars

C20_OtherPollFailureChangesNothing ==
  (IsCall("doPoll") /\ ~lastCall.connLevel) =>
    /\ connected[lastCall.g] = lastCall.connected
    /\ backoffDelay[lastCall.g] = lastCall.backoffDelay
    /\ reconnectTimeout[lastCall.g] = lastCall.reconnectTimeout
    /\ connected[lastCall.g] => DoPollGuard(lastCall.g, lastCall.p)

\* C20 witness: a poll of a connected, tracked connection without a pending
\* timer has failed with such an error, and the next tick passes the guard.
C20_Witness ==
  /\ IsCall("doPoll")
  /\ ~lastCall.connLevel
  /\ lastCall.tracked
  /\ connected[lastCall.g]
  /\ reconnectTimeout[lastCall.g] = NoTimer
  /\ DoPollGuard(lastCall.g, lastCall.p)

\* C21: the backoffDelay of every connection is at least the initial delay
\* (1000 ms) and at most the maximum (300000 ms).
C21_BackoffWithinBounds ==
  \A g \in Gens :
    /\ backoffDelay[g] >= INITIAL_BACKOFF_DELAY
    /\ backoffDelay[g] <= MAX_BACKOFF_DELAY

\* C21 witness: a connection whose reconnect attempts have failed MaxFails
\* times in a row waits for its next attempt, its delay within the bounds.
C21_Witness ==
  \E g \in Gens :
    /\ reconnFails[g] = MaxFails
    /\ reconnectTimeout[g] # NoTimer
    /\ backoffDelay[g] >= INITIAL_BACKOFF_DELAY
    /\ backoffDelay[g] <= MAX_BACKOFF_DELAY

\* the polling loops started by the last step on connection object h
LoopsStarted(h) == Len(pollers[h]) - lastCall.loops[h]

\* C22 (as claimed): right after a 'connected' event the connection has the
\* initial backoffDelay, is marked connected, and a polling loop has been
\* started for its device.
C22_ConnectedStartsPolling ==
  IsCall("connected") =>
    /\ backoffDelay[lastCall.g] = INITIAL_BACKOFF_DELAY
    /\ connected[lastCall.g]
    /\ \E h \in Gens : connId[h] = connId[lastCall.g] /\ LoopsStarted(h) = 1

\* C22 (amended): right after a 'connected' event the connection has the
\* initial backoffDelay and is marked connected; one polling loop has been
\* started on the connection tracked for its device id, and none at all
\* when no connection is tracked for that id.
C22_ConnectedStartsTrackedPolling ==
  IsCall("connected") =>
    /\ backoffDelay[lastCall.g] = INITIAL_BACKOFF_DELAY
    /\ connected[lastCall.g]
    /\ \A h \in Gens :
         LoopsStarted(h) = IF h = lastCall.tracked THEN 1 ELSE 0

\* C22 witness: a tracked connection has connected after MaxFails failed
\* reconnect attempts, and its polling loop has been started.
C22_Witness ==
  /\ IsCall("connected")
  /\ lastCall.tracked = lastCall.g
  /\ lastCall.reconnFails = MaxFails
  /\ backoffDelay[lastCall.g] = INITIAL_BACKOFF_DELAY
  /\ connected[lastCall.g]
  /\ LoopsStarted(lastCall.g) = 1

SequencesInFlight(id) ==
  SumSeq([g \in Gens |-> IF connId[g] = id THEN Len(connecting[g]) ELSE 0])

\* C32 (as claimed): at most one connect sequence of a Tuya device is in
\* flight at any time.
C32_OneConnectSequence == \A id \in TuyaIds : SequencesInFlight(id) <= 1

(***************************************************************************)
(* Connections that were discarded and re-created: one device, refreshed   *)
(* while its connection is connecting, connected, polled or in backoff, so *)
(* that events of the discarded connection object arrive while another     *)
(* object is tracked for the id.  Reconnect timers are armed and cleared,   *)
(* they do not fire here.                                                  *)
(***************************************************************************)
NextStale ==
  \/ StartTuyaService(MaxGen) /\ OnlyTuya
  \/ RefreshTuyaService(MaxGen) /\ OnlyTuya
  \/ \E g \in Gens, i \in 1..MaxInflight : FindResolve(g, i) /\ OnlyTuya
  \/ \E g \in Gens, i \in 1..MaxInflight : FindReject(g, i) /\ OnlyTuya
  \/ \E g \in Gens, i \in 1..MaxInflight : ConnectResolve(g, i) /\ OnlyTuya
  \/ \E g \in Gens : DeviceDisconnected(g) /\ OnlyTuya
  \/ \E g \in Gens : DeviceError(g) /\ OnlyTuya
  \/ \E g \in Gens, p \in 1..MaxPollers : PollTick(g, p) /\ OnlyTuya
  \/ \E g \in Gens, p \in 1..MaxPollers : PollTimeout(g, p) /\ OnlyTuya

SpecStale == Init /\ [][NextStale]_vars

\* an event, a poll failure or the end of a connect sequence of connection
\* object g
EventOf(g) ==
  \/ DeviceDisconnected(g)
  \/ DeviceError(g)
  \/ \E i \in 1..MaxInflight : FindReject(g, i) \/ ConnectResolve(g, i)
  \/ \E p \in 1..MaxPollers : PollTimeout(g, p)

\* the connection tracked for id is the same object, in the same state
TrackedUntouched(id) ==
  LET t == deviceConnections[id]
  IN  t # NoConn =>
        /\ deviceConnections'[id] = t
        /\ connected'[t] = connected[t]
        /\ backoffDelay'[t] = backoffDelay[t]
        /\ reconnectTimeout'[t] = reconnectTimeout[t]
        /\ connecting'[t] = connecting[t]
        /\ pollers'[t] = pollers[t]

\* C33 (as claimed): an event, poll failure or connect failure of a
\* connection object that disconnectDevice has discarded leaves the
\* connection tracked for the same device id as it is: no timer is armed on
\* it and its state does not change.
C33_StaleEventsAreIgnored ==
  [][\A g \in Gens :
       (Removed(g) /\ EventOf(g)) => TrackedUntouched(connId[g])]_vars

(***************************************************************************)
(* The poller on its own: a device connects and is polled; a refresh()     *)
(* resolves, rejects, or stays unsettled while the POLL_TIMEOUT timer of   *)
(* its doPoll call runs.  A timer that is armed fires unless it is         *)
(* cleared: that is the fairness of the event loop.                        *)
(***************************************************************************)
NextPoll ==
  \/ StartTuyaService(MaxConnGen) /\ OnlyTuya
  \/ \E g \in Gens : ReconnectTimerFire(g) /\ OnlyTuya
  \/ \E g \in Gens, i \in 1..MaxInflight : FindResolve(g, i) /\ OnlyTuya
  \/ \E g \in Gens, i \in 1..MaxInflight :
       ConnectResolve(g, i) /\ ConnectedSeen(g)
  \/ \E g \in Gens, p \in 1..MaxPollers : PollTick(g, p) /\ OnlyTuya
  \/ \E g \in Gens, p \in 1..MaxPollers : PollResolve(g, p) /\ OnlyTuya
  \/ \E g \in Gens, p \in 1..MaxPollers :
       PollRejectConn(g, p) /\ PollFailureSeen(g, p, TRUE)
  \/ \E g \in Gens, p \in 1..MaxPollers :
       PollRejectOther(g, p) /\ PollFailureSeen(g, p, FALSE)
  \/ \E g \in Gens, p \in 1..MaxPollers :
       PollTimeout(g, p) /\ PollFailureSeen(g, p, TRUE)
  \/ \E g \in Gens : LateRefreshSettle(g) /\ OnlyTuya
  \/ \E g \in Gens : DeviceDisconnected(g) /\ OnlyTuya

\* the timeout of every doPoll call in flight fires
PollTimersFire ==
  \A g \in Gens, p \in 1..MaxPollers :
    WF_vars(PollTimeout(g, p) /\ PollFailureSeen(g, p, TRUE))

SpecPoll == Init /\ [][NextPoll]_vars /\ PollTimersFire

\* is the isPolling flag of closure p on connection object g set?
InFlight(g, p) == p \in 1..Len(pollers[g]) /\ pollers[g][p]

\* C34: the in-flight flag that a poll tick has set is cleared again,
\* whether the refresh resolves, rejects or never settles.
C34_PollCompletes ==
  \A g \in Gens, p \in 1..MaxPollers : InFlight(g, p) ~> ~InFlight(g, p)

\* C34 witness: a refresh that lost the race against the timeout is still
\* unsettled, its poll has completed, the device has reconnected, and a
\* later tick of the same closure has issued the next refresh.
C34_Witness ==
  \E g \in Gens :
    /\ InFlight(g, 1)
    /\ Polling(g) = 1
    /\ refreshes[g] = 2

(***************************************************************************)
(* The clock.                                                              *)
(***************************************************************************)
AdvanceClock ==
  /\ \E t \in ClockValues : t > now /\ now' = t
  /\ lastCall' = NoCall
  /\ UNCHANGED <<nextSample, flushCount, deviceData, haaLastReset,
                 wallConnectorData, pollInterval, isPolling, wcRequests>>
  /\ UNCHANGED <<tuyaVars, tuyaDeviceData>>

(***************************************************************************)
(* Tuya samples: handleDeviceDataUpdate and aggregateTuyaData.             *)
(***************************************************************************)
\* ids of the samples held in a buffer
SampleIds(buf) == {buf[i].id : i \in 1..Len(buf)}

\* sum of the values of a buffer (reduce((a, b) => a + b, 0))
RECURSIVE SumValues(_)
SumValues(buf) == IF buf = <<>> THEN 0 ELSE Head(buf).value + SumValues(Tail(buf))

\* handleDeviceDataUpdate on the device's TuyaDeviceData: each dps key that is
\* present is pushed with the time of the event (power) or as a plain value.
PushDps(d, dps, t, sid) ==
  [power |-> IF dps.p # Undef
             THEN Append(d.power, [value |-> dps.p[1], timestamp |-> t, id |-> sid])
             ELSE d.power,
   voltage |-> IF dps.v # Undef
               THEN Append(d.voltage, [value |-> dps.v[1], id |-> sid])
               ELSE d.voltage,
   current |-> IF dps.c # Undef
               THEN Append(d.current, [value |-> dps.c[1], id |-> sid])
               ELSE d.current]

\* A 'data' or 'dp-refresh' event of an open transport of device id.
HandleDeviceDataUpdate(id, dps) ==
  /\ \E g \in Gens : connId[g] = id /\ transport[g] = "open"
  /\ tuyaDeviceData[id] # NoData
  /\ nextSample <= MaxIngest
  /\ tuyaDeviceData' =
       [tuyaDeviceData EXCEPT ![id] = PushDps(@, dps, now, nextSample)]
  /\ nextSample' = nextSample + 1
  /\ lastCall' = NoCall
  /\ UNCHANGED <<now, flushCount, deviceData, haaLastReset,
                 wallConnectorData, pollInterval, isPolling, wcRequests>>
  /\ UNCHANGED tuyaVars

\* `now` as the aggregate functions use it: new Date(now.setSeconds(0, 0))
\* sets the seconds and milliseconds of `now` itself to zero.
FlushNow(t) == t - (t % MinuteTicks)

\* the loop over powerReadings: each reading is held until the next one, the
\* last one until `now`
RECURSIVE TotalEnergy(_, _, _)
TotalEnergy(readings, i, end) ==
  IF i > Len(readings) THEN 0
  ELSE LET duration == IF i < Len(readings)
                       THEN readings[i + 1].timestamp - readings[i].timestamp
                       ELSE end - readings[i].timestamp
       IN  readings[i].value * duration + TotalEnergy(readings, i + 1, end)

\* sum / length, or 0 for an empty array, as a fraction
Average(buf) ==
  IF Len(buf) > 0 THEN [num |-> SumValues(buf), den |-> Len(buf)]
  ELSE [num |-> 0, den |-> 1]

\* the aggregated_energy point of one device
TuyaPoint(id, d, t) ==
  [device |-> id,
   consumption |-> TotalEnergy(d.power, 1, FlushNow(t)),
   avg_voltage |-> Average(d.voltage),
   avg_current |-> Average(d.current),
   timestamp |-> FlushNow(t)]

\* does the loop of aggregateTuyaData handle this entry, or `continue`?
TuyaFlushed(data, cfg, id) == data[id] # NoData /\ cfg[id] # "absent"

\* the points aggregateTuyaData writes, in the order of the map
RECURSIVE TuyaPoints(_, _, _, _)
TuyaPoints(data, cfg, t, i) ==
  IF i > Len(TuyaOrder) THEN <<>>
  ELSE LET id == TuyaOrder[i]
       IN  (IF TuyaFlushed(data, cfg, id)
            THEN <<TuyaPoint(id, data[id], t)>> ELSE <<>>)
           \o TuyaPoints(data, cfg, t, i + 1)

\* aggregateTuyaData without its three resets
TuyaResetSkipped(data, cfg) == data

\* the buffers as aggregateTuyaData leaves them
TuyaReset(data, cfg) ==
  [id \in TuyaIds |->
     IF TuyaFlushed(data, cfg, id) THEN EmptyTuyaData ELSE data[id]]

\* samples read by this call of aggregateTuyaData
TuyaRead(data, cfg) ==
  UNION {SampleIds(data[id].power) \cup SampleIds(data[id].voltage)
           \cup SampleIds(data[id].current) :
         id \in {x \in TuyaIds : TuyaFlushed(data, cfg, x)}}

CountFlush(ids) ==
  [i \in 1..MaxIngest |-> IF i \in ids THEN flushCount[i] + 1 ELSE flushCount[i]]

AggregateTuyaData ==
  /\ tuyaDeviceData' = TuyaReset(tuyaDeviceData, tuyaConfig)
  /\ lastCall' = [op |-> "aggregateTuyaData", run |-> now,
                  before |-> tuyaDeviceData, cfg |-> tuyaConfig,
                  out |-> TuyaPoints(tuyaDeviceData, tuyaConfig, now, 1),
                  after |-> tuyaDeviceData']
  /\ flushCount' = CountFlush(TuyaRead(tuyaDeviceData, tuyaConfig))
  /\ UNCHANGED <<now, nextSample, deviceData, haaLastReset,
                 wallConnectorData, pollInterval, isPolling, wcRequests>>
  /\ UNCHANGED tuyaVars

(***************************************************************************)
(* HAA samples: handleHAAEnergyData and aggregateHAAData.                  *)
(***************************************************************************)
\* consumption * 1000 (kWh to Wh); NaN stays NaN
ToWh(x) == IF x = NaN THEN NaN ELSE <<x[1] * 1000>>

\* a >= b on JavaScript numbers: false when either side is NaN
Geq(a, b) == a # NaN /\ b # NaN /\ a[1] >= b[1]

\* handleHAAEnergyData without the test `consumptionValue >= lastConsumption`
HaaUpdateUnguarded(old, voltage, current, consumption, sid) ==
  LET consumptionValue == ToWh(consumption)
      d0 == IF old = NoData
            THEN [voltage |-> <<>>, current |-> <<>>, consumption |-> 0,
                  lastConsumption |-> consumptionValue]
            ELSE old
      delta == IF consumptionValue = NaN \/ d0.lastConsumption = NaN THEN 0
               ELSE consumptionValue[1] - d0.lastConsumption[1]
  IN  [voltage |-> Append(d0.voltage, [value |-> voltage, id |-> sid]),
       current |-> Append(d0.current, [value |-> current, id |-> sid]),
       consumption |-> d0.consumption + delta,
       lastConsumption |-> consumptionValue]

\* the state changes of handleHAAEnergyData for one posted body
HaaUpdate(old, voltage, current, consumption, sid) ==
  LET consumptionValue == ToWh(consumption)
      d0 == IF old = NoData
            THEN [voltage |-> <<>>, current |-> <<>>, consumption |-> 0,
                  lastConsumption |-> consumptionValue]
            ELSE old
      d1 == [d0 EXCEPT !.voltage = Append(@, [value |-> voltage, id |-> sid]),
                       !.current = Append(@, [value |-> current, id |-> sid])]
      d2 == IF Geq(consumptionValue, d1.lastConsumption)
            THEN [d1 EXCEPT !.consumption = @ + (consumptionValue[1] - d1.lastConsumption[1]),
                            !.lastConsumption = consumptionValue]
            ELSE d1
  IN  [d2 EXCEPT !.lastConsumption = consumptionValue]

\* was the reading a meter reset, i.e. lower than the baseline before it?
IsReset(old, reading) ==
  /\ old # NoData
  /\ reading # NaN
  /\ old.lastConsumption # NaN
  /\ reading[1] < old.lastConsumption[1]

\* POST /collect/haa-energy with body "id,voltage,current,power,consumption"
HandleHAAEnergyData(id, voltage, current, consumption) ==
  /\ nextSample <= MaxIngest
  /\ deviceData' = [deviceData EXCEPT ![id] =
                      HaaUpdate(@, voltage, current, consumption, nextSample)]
  /\ haaLastReset' = [haaLastReset EXCEPT ![id] =
                        IsReset(deviceData[id], ToWh(consumption))]
  /\ lastCall' = [op |-> "handleHAAEnergyData", id |-> id,
                  before |-> deviceData[id], reading |-> ToWh(consumption),
                  after |-> deviceData'[id], afterReset |-> haaLastReset[id]]
  /\ nextSample' = nextSample + 1
  /\ UNCHANGED <<now, flushCount, wallConnectorData,
                 pollInterval, isPolling, wcRequests>>
  /\ UNCHANGED <<tuyaVars, tuyaDeviceData>>

HaaFlushed(data, id) == data[id] # NoData

\* an aggregateHAAData that forgets the baseline when it resets the total
HaaResetBaseline(data) ==
  [id \in HaaIds |->
     IF HaaFlushed(data, id)
     THEN [data[id] EXCEPT !.voltage = <<>>, !.current = <<>>, !.consumption = 0,
                           !.lastConsumption = <<0>>]
     ELSE data[id]]

\* the device entries as aggregateHAAData leaves them
HaaReset(data) ==
  [id \in HaaIds |->
     IF HaaFlushed(data, id)
     THEN [data[id] EXCEPT !.voltage = <<>>, !.current = <<>>, !.consumption = 0]
     ELSE data[id]]

HaaRead(data) ==
  UNION {SampleIds(data[id].voltage) \cup SampleIds(data[id].current) :
         id \in {x \in HaaIds : HaaFlushed(data, x)}}

AggregateHAAData ==
  /\ deviceData' = HaaReset(deviceData)
  /\ flushCount' = CountFlush(HaaRead(deviceData))
  /\ lastCall' = [op |-> "aggregateHAAData", before |-> deviceData,
                  after |-> deviceData']
  /\ UNCHANGED <<now, nextSample, haaLastReset, wallConnectorData,
                 pollInterval, isPolling, wcRequests>>
  /\ UNCHANGED <<tuyaVars, tuyaDeviceData>>

(***************************************************************************)
(* Wall connector: pollWallConnector and aggregateWallConnectorData.       *)
(***************************************************************************)
\* a startWallConnectorService that arms a new interval without clearing
StartWithoutClear(armed) == armed + 1

\* startWallConnectorService, on the number of armed intervals: the armed
\* interval is cleared and a new one is armed.
StartWallConnectorService(armed) ==
  (IF armed > 0 THEN armed - 1 ELSE 0) + 1

\* refreshWallConnectorService: startWallConnectorService is called.
RefreshWallConnectorService ==
  /\ pollInterval' = StartWallConnectorService(pollInterval)
  /\ UNCHANGED <<now, nextSample, flushCount, deviceData, haaLastReset,
                 wallConnectorData, isPolling, wcRequests>>
  /\ UNCHANGED <<tuyaVars, tuyaDeviceData>>

\* An interval tick that passes `if (isPolling) return`: the request is sent.
WcPollTick ==
  /\ pollInterval > 0
  /\ ~isPolling
  /\ isPolling' = TRUE
  /\ wcRequests' = wcRequests + 1
  /\ lastCall' = NoCall
  /\ UNCHANGED <<now, nextSample, flushCount, deviceData, haaLastReset,
                 wallConnectorData, pollInterval>>
  /\ UNCHANGED <<tuyaVars, tuyaDeviceData>>

\* the readings after a response: stored only while the contactor is closed
WcStore(readings, vitals, t, sid) ==
  IF vitals.contactor_closed
  THEN Append(readings, [timestamp |-> t, current |-> vitals.currentA_a,
                         voltage |-> vitals.voltageA_v, charging |-> TRUE,
                         id |-> sid])
  ELSE readings

\* The request resolves with the vitals.
WcPollResponse(vitals) ==
  /\ wcRequests > 0
  /\ vitals.contactor_closed => nextSample <= MaxIngest
  /\ wallConnectorData' = WcStore(wallConnectorData, vitals, now, nextSample)
  /\ nextSample' = IF vitals.contactor_closed THEN nextSample + 1 ELSE nextSample
  /\ isPolling' = FALSE
  /\ wcRequests' = wcRequests - 1
  /\ lastCall' = NoCall
  /\ UNCHANGED <<now, flushCount, deviceData, haaLastReset, pollInterval>>
  /\ UNCHANGED <<tuyaVars, tuyaDeviceData>>

\* The request fails or times out (axios timeout POLL_TIMEOUT).
WcPollError ==
  /\ wcRequests > 0
  /\ isPolling' = FALSE
  /\ wcRequests' = wcRequests - 1
  /\ UNCHANGED <<now, nextSample, flushCount, deviceData, haaLastReset,
                 wallConnectorData, pollInterval>>
  /\ UNCHANGED <<tuyaVars, tuyaDeviceData>>

\* aggregateWallConnectorData without its reset
WcResetSkipped(readings) == readings

\* the readings as aggregateWallConnectorData leaves them
WcReset(readings) == <<>>

\* wallConnectorData.readings.filter((r) => r.charging)
ChargingReadings(readings) == SelectSeq(readings, LAMBDA r : r.charging)

\* the loop over chargingReadings: each reading is held until the next
\* charging reading, the last one until `now`; an energy is the numerator of
\* num / WcEnergyDen Wh (volt times ampere, times duration / 10 s, over 3600)
WcDuration(readings, i, end) ==
  IF i < Len(readings)
  THEN readings[i + 1].timestamp - readings[i].timestamp
  ELSE end - readings[i].timestamp

RECURSIVE WcTotalEnergy(_, _, _)
WcTotalEnergy(readings, i, end) ==
  IF i > Len(readings) THEN 0
  ELSE readings[i].current * readings[i].voltage * WcDuration(readings, i, end)
         + WcTotalEnergy(readings, i + 1, end)

\* the aggregated_energy points aggregateWallConnectorData writes: one when
\* there is a charging reading, none otherwise
WcPoints(readings, t) ==
  IF Len(ChargingReadings(readings)) > 0
  THEN <<[device |-> "tesla",
          consumption |-> WcTotalEnergy(ChargingReadings(readings), 1, FlushNow(t)),
          timestamp |-> FlushNow(t)]>>
  ELSE <<>>

AggregateWallConnectorData ==
  /\ wallConnectorData' = WcReset(wallConnectorData)
  /\ flushCount' = CountFlush(SampleIds(wallConnectorData))
  /\ lastCall' = [op |-> "aggregateWallConnectorData", run |-> now,
                  before |-> wallConnectorData,
                  out |-> WcPoints(wallConnectorData, now)]
  /\ UNCHANGED <<now, nextSample, deviceData, haaLastReset, pollInterval,
                 isPolling, wcRequests>>
  /\ UNCHANGED <<tuyaVars, tuyaDeviceData>>

(***************************************************************************)
(* The buffers and their flushes, with the Tuya devices connecting.        *)
(***************************************************************************)
OnlyBuffers == UNCHANGED <<priceVars, reconciled, ledgerVars, mainVars>>

\* a step of the connection manager, seen from the buffers
OnlyConnection ==
  lastCall' = NoCall /\ UNCHANGED <<bufVars, priceVars, reconciled, ledgerVars, mainVars>>

NextAgg ==
  \/ ReloadTuyaConfig(ConnIds) /\ OnlyConnection
  \/ StartTuyaService(MaxConnGen) /\ OnlyConnection
  \/ \E g \in Gens, i \in 1..MaxInflight : FindResolve(g, i) /\ OnlyConnection
  \/ \E g \in Gens, i \in 1..MaxInflight :
       ConnectResolve(g, i) /\ OnlyConnection
  \/ AdvanceClock /\ OnlyBuffers
  \/ \E id \in TuyaIds, dps \in TuyaPayloads :
       HandleDeviceDataUpdate(id, dps) /\ OnlyBuffers
  \/ AggregateTuyaData /\ OnlyBuffers
  \/ \E id \in HaaIds, v \in HaaVoltages, c \in HaaCurrents,
        k \in HaaConsumptions : HandleHAAEnergyData(id, v, c, k) /\ OnlyBuffers
  \/ AggregateHAAData /\ OnlyBuffers
  \/ RefreshWallConnectorService /\ lastCall' = NoCall /\ OnlyBuffers
  \/ WcPollTick /\ OnlyBuffers
  \/ \E vitals \in WcVitals : WcPollResponse(vitals) /\ OnlyBuffers
  \/ WcPollError /\ lastCall' = NoCall /\ OnlyBuffers
  \/ AggregateWallConnectorData /\ OnlyBuffers

SpecAgg == Init /\ [][NextAgg]_vars

(***************************************************************************)
(* The wall connector on its own.  Each refreshWallConnectorService call   *)
(* leaves a record of what it found: the armed intervals, the requests in  *)
(* flight, and whether the poll before it had failed.                      *)
(***************************************************************************)
RefreshWallSeen ==
  lastCall' = [op |-> "refreshWallConnectorService", armed |-> pollInterval,
               inflight |-> wcRequests,
               afterError |-> IsCall("pollWallConnector")]

\* the catch block of pollWallConnector has just run
WcErrorSeen == lastCall' = [op |-> "pollWallConnector"]

NextWall ==
  \/ AdvanceClock /\ OnlyBuffers
  \/ RefreshWallConnectorService /\ RefreshWallSeen /\ OnlyBuffers
  \/ WcPollTick /\ OnlyBuffers
  \/ \E vitals \in WcVitals : WcPollResponse(vitals) /\ OnlyBuffers
  \/ WcPollError /\ WcErrorSeen /\ OnlyBuffers
  \/ AggregateWallConnectorData /\ OnlyBuffers

SpecWall == Init /\ [][NextWall]_vars

\* C24: at most one wall connector poll request is in flight and at most
\* one poll timer is armed, in every state.
C24_OnePollOneTimer == wcRequests <= 1 /\ pollInterval <= 1

\* C24 witness: refreshWallConnectorService has run while a timer was armed,
\* right after a failed poll, and a timer is armed now.
C24_Witness ==
  /\ IsCall("refreshWallConnectorService")
  /\ lastCall.afterError
  /\ lastCall.armed = 1
  /\ pollInterval = 1

(***************************************************************************)
(* The wall connector with the raw_wall_connector points it writes: one    *)
(* for every answered poll, charging or not, with the time of the answer.  *)
(* A point carries the id of the reading stored with it, 0 when the        *)
(* contactor was open and no reading was stored.                           *)
(***************************************************************************)
RawPointSeen(vitals) ==
  /\ Len(rawWallConnector) < MaxRaw
  /\ rawWallConnector' =
       Append(rawWallConnector,
              [contactor_closed |-> vitals.contactor_closed, t |-> now,
               id |-> IF vitals.contactor_closed THEN nextSample ELSE 0])
  /\ UNCHANGED <<priceVars, reconciled, haaLedger, initialUpdate, mainVars>>

NextCharge ==
  \/ AdvanceClock /\ OnlyBuffers
  \/ WcPollTick /\ OnlyBuffers
  \/ \E vitals \in WcVitals : WcPollResponse(vitals) /\ RawPointSeen(vitals)
  \/ AggregateWallConnectorData /\ OnlyBuffers

SpecCharge == Init /\ [][NextCharge]_vars

\* the time of the poll answered next after the one that stored reading r
NextPollTime(r) ==
  LET k == CHOOSE j \in 1..Len(rawWallConnector) : rawWallConnector[j].id = r.id
  IN  rawWallConnector[k + 1].t

\* C37 (as claimed): a charging reading that is followed by another one in
\* the window adds energy only for the time until the next answered poll,
\* so that polls with the contactor open between two charging readings add
\* nothing.  The code holds the reading until the next charging reading.
C37_OpenStretchAddsNothing ==
  IsCall("aggregateWallConnectorData") =>
    LET ch == ChargingReadings(lastCall.before)
    IN  \A i \in 1..(Len(ch) - 1) :
          WcDuration(ch, i, FlushNow(lastCall.run))
            = NextPollTime(ch[i]) - ch[i].timestamp

(***************************************************************************)
(* The HAA devices on their own.  The ledger of a device keeps the first   *)
(* and the latest reading it posted (total_consumption of its raw_energy   *)
(* points), whether every reading was a number not below the one before,   *)
(* and the sum of the consumption fields of its aggregated_energy points.  *)
(***************************************************************************)
HaaIngestSeen(id, consumption) ==
  /\ haaLedger' =
       [haaLedger EXCEPT ![id] =
          IF @ = NoLedger
          THEN [first |-> ToWh(consumption), latest |-> ToWh(consumption),
                written |-> 0, monotone |-> ToWh(consumption) # NaN]
          ELSE [@ EXCEPT !.latest = ToWh(consumption),
                         !.monotone = @ /\ Geq(ToWh(consumption),
                                               haaLedger[id].latest)]]
  /\ UNCHANGED <<priceVars, reconciled, rawWallConnector, initialUpdate,
                 mainVars>>

HaaFlushSeen ==
  /\ haaLedger' =
       [id \in HaaIds |->
          IF HaaFlushed(deviceData, id)
          THEN [haaLedger[id] EXCEPT !.written = @ + deviceData[id].consumption]
          ELSE haaLedger[id]]
  /\ UNCHANGED <<priceVars, reconciled, rawWallConnector, initialUpdate,
                 mainVars>>

NextHaa ==
  \/ \E id \in HaaIds, v \in HaaVoltages, c \in HaaCurrents,
        k \in HaaConsumptions :
       HandleHAAEnergyData(id, v, c, k) /\ HaaIngestSeen(id, k)
  \/ AggregateHAAData /\ HaaFlushSeen

SpecHaa == Init /\ [][NextHaa]_vars

\* C36: for a HAA device whose readings never decrease, the consumption
\* written by all flushes plus the running total not yet flushed equals the
\* latest reading minus the first reading, in every state.
C36_NoDeltaLostOrDoubled ==
  \A id \in HaaIds :
    (haaLedger[id] # NoLedger /\ haaLedger[id].monotone) =>
      haaLedger[id].written + deviceData[id].consumption
        = haaLedger[id].latest[1] - haaLedger[id].first[1]

\* C36 witness: a device whose readings never decreased has had a delta
\* written by a flush and has gathered another one since.
C36_Witness ==
  \E id \in HaaIds :
    /\ haaLedger[id] # NoLedger
    /\ haaLedger[id].monotone
    /\ haaLedger[id].written > 0
    /\ deviceData[id].consumption > 0

(***************************************************************************)
(* The reconciliation on its own: the device list is reloaded, the         *)
(* connections are reconciled or refreshed, devices connect and deliver    *)
(* samples.  Each connectAllDevices and refreshTuyaService call leaves a   *)
(* record: the list it read, the list the call before it read, and the     *)
(* Tuya state it found.                                                    *)
(***************************************************************************)
ReconcileSeen(op) ==
  /\ lastCall' = [op |-> op, cfg |-> tuyaConfig, prev |-> reconciled,
                  before |-> TuyaState]
  /\ reconciled' = tuyaConfig
  /\ UNCHANGED <<bufVars, priceVars, ledgerVars, mainVars>>

NextReconcile ==
  \/ ReloadTuyaConfig(TuyaIds) /\ OnlyConnection
  \/ StartTuyaService(MaxGen) /\ ReconcileSeen("connectAllDevices")
  \/ RefreshTuyaService(MaxGen) /\ ReconcileSeen("refreshTuyaService")
  \/ \E g \in Gens, i \in 1..MaxInflight : FindResolve(g, i) /\ OnlyConnection
  \/ \E g \in Gens, i \in 1..MaxInflight :
       ConnectResolve(g, i) /\ OnlyConnection
  \/ \E id \in TuyaIds, dps \in TuyaPayloads :
       HandleDeviceDataUpdate(id, dps) /\ OnlyBuffers

SpecReconcile == Init /\ [][NextReconcile]_vars

\* C15: a connectAllDevices call that reads the device list the call before
\* it read changes nothing for a configured id: its tracked connection, its
\* connect sequences in flight and its sample buffer are what they were,
\* and no connection object is created.
C15_ReconcileIsIdempotent ==
  (IsCall("connectAllDevices") /\ lastCall.prev = lastCall.cfg) =>
    /\ nextGen = lastCall.before.nextGen
    /\ connecting = lastCall.before.connecting
    /\ \A id \in TuyaIds :
         lastCall.cfg[id] # "absent" =>
           /\ deviceConnections[id] = lastCall.before.deviceConnections[id]
           /\ tuyaDeviceData[id] = lastCall.before.tuyaDeviceData[id]

\* C15 witness: such a second call has run while a configured device was
\* connected, with samples in its buffer, and another configured device has
\* no connection because its key is unusable.
C15_Witness ==
  /\ IsCall("connectAllDevices")
  /\ lastCall.prev = lastCall.cfg
  /\ \E id \in TuyaIds :
       /\ lastCall.cfg[id] = "ok"
       /\ deviceConnections[id] # NoConn
       /\ connected[deviceConnections[id]]
       /\ tuyaDeviceData[id].power # <<>>
  /\ \E id \in TuyaIds : lastCall.cfg[id] = "badkey"

\* reconnect timers pending for device id, over all its connection objects
PendingTimers(id) ==
  Cardinality({g \in Gens : connId[g] = id /\ reconnectTimeout[g] # NoTimer})

\* C23 (as claimed): in every reachable state at most one reconnect timer is
\* pending per device id.
C23_OneTimerPerDevice == \A id \in TuyaIds : PendingTimers(id) <= 1

\* C16 (as claimed): refreshTuyaService disconnects and discards only the
\* connections and buffers of ids that are no longer configured; an id that
\* is still configured keeps its connection and its buffered samples.
C16_RefreshKeepsConfigured ==
  IsCall("refreshTuyaService") =>
    \A id \in TuyaIds :
      lastCall.before.deviceConnections[id] # NoConn =>
        IF lastCall.cfg[id] = "absent"
        THEN deviceConnections[id] = NoConn /\ tuyaDeviceData[id] = NoData
        ELSE /\ deviceConnections[id] = lastCall.before.deviceConnections[id]
             /\ tuyaDeviceData[id] = lastCall.before.tuyaDeviceData[id]

(***************************************************************************)
(* Claims about the sample buffers and their flushes.                      *)
(***************************************************************************)
\* the points of the last aggregateTuyaData call that carry device id
PointsOf(id) == {k \in 1..Len(lastCall.out) : lastCall.out[k].device = id}

\* C4 (as claimed): the consumption aggregateTuyaData writes for a device is
\* the sum of p_i * (t_(i+1) - t_i) over its power samples, the last sample
\* held until the time T at which the flush runs, over 3600 (here: over
\* EnergyDen).  The code holds the last sample until T cut to the whole minute.
C4_EnergyUntilRunTime ==
  IsCall("aggregateTuyaData") =>
    \A k \in 1..Len(lastCall.out) :
      lastCall.out[k].consumption
        = TotalEnergy(lastCall.before[lastCall.out[k].device].power, 1,
                      lastCall.run)

\* the power values a flush found in the buffers it read
PowersRead ==
  IF IsCall("aggregateTuyaData")
  THEN UNION {{lastCall.before[id].power[i].value :
                 i \in 1..Len(lastCall.before[id].power)} :
              id \in {x \in TuyaIds :
                        TuyaFlushed(lastCall.before, lastCall.cfg, x)}}
  ELSE {lastCall.before[i].current * lastCall.before[i].voltage :
          i \in 1..Len(lastCall.before)}

\* C35 (as claimed): the energy aggregateTuyaData and
\* aggregateWallConnectorData write is never negative when all the buffered
\* power values are >= 0, the last sample being held until the flush time.
\* The code holds the last sample until the start of the minute of the
\* flush, which a sample taken in that minute has already passed.
C35_EnergyNeverNegative ==
  (IsCall("aggregateTuyaData") \/ IsCall("aggregateWallConnectorData")) =>
    ((\A p \in PowersRead : p >= 0) =>
       \A k \in 1..Len(lastCall.out) : lastCall.out[k].consumption >= 0)

\* C5: a HAA reading below the last one adds nothing to the device's
\* consumption and becomes the baseline; a reading at or above the baseline
\* adds its difference to it; a flush keeps the baseline; the consumption of
\* a device is never negative.
C5_HaaCounterReset ==
  /\ \A id \in HaaIds :
       deviceData[id] # NoData => deviceData[id].consumption >= 0
  /\ IsCall("handleHAAEnergyData") =>
       LET b == lastCall.before
           r == lastCall.reading
           a == lastCall.after
       IN  /\ a.lastConsumption = r
           /\ IsReset(b, r) => a.consumption = b.consumption
           /\ (b # NoData /\ Geq(r, b.lastConsumption)) =>
                a.consumption = b.consumption + (r[1] - b.lastConsumption[1])
  /\ IsCall("aggregateHAAData") =>
       \A id \in HaaIds :
         lastCall.before[id] # NoData =>
           lastCall.after[id].lastConsumption
             = lastCall.before[id].lastConsumption

\* C5 witness: the reading before this one was a reset, and this one is
\* added as its difference to the baseline the reset left.
C5_Witness ==
  /\ IsCall("handleHAAEnergyData")
  /\ lastCall.afterReset
  /\ Geq(lastCall.reading, lastCall.before.lastConsumption)
  /\ lastCall.reading[1] > lastCall.before.lastConsumption[1]
  /\ lastCall.after.consumption
       = lastCall.before.consumption
           + (lastCall.reading[1] - lastCall.before.lastConsumption[1])

\* C25 (as claimed): a HAA payload whose consumption field is not a number
\* leaves the device's stored samples, running total and baseline as they
\* were.
C25_MalformedLeavesState ==
  (IsCall("handleHAAEnergyData") /\ lastCall.reading = NaN) =>
    lastCall.after = lastCall.before

\* C6: every sample put into a buffer (Tuya, HAA, wall connector) is read by
\* at most one flush.
C6_FlushedAtMostOnce == \A i \in 1..MaxIngest : flushCount[i] <= 1

\* C6 witness: a flush has just read samples, after an earlier flush had read
\* other samples.
C6_Witness ==
  /\ IsCall("aggregateTuyaData")
  /\ TuyaRead(lastCall.before, lastCall.cfg) # {}
  /\ \A i \in TuyaRead(lastCall.before, lastCall.cfg) : flushCount[i] = 1
  /\ \E i \in 1..MaxIngest :
       i \notin TuyaRead(lastCall.before, lastCall.cfg) /\ flushCount[i] = 1

\* C7 (as claimed): each aggregateTuyaData call writes exactly one record for
\* every device that has buffers and leaves the buffers of that device empty.
C7_OneRecordPerBuffer ==
  IsCall("aggregateTuyaData") =>
    \A id \in TuyaIds :
      lastCall.before[id] # NoData =>
        /\ Cardinality(PointsOf(id)) = 1
        /\ lastCall.after[id] = EmptyTuyaData

\* C7 (amended): each aggregateTuyaData call writes exactly one record for
\* every device that has buffers and is in the current configuration, and
\* leaves the buffers of that device empty; for a device that has buffers
\* but is no longer configured it writes no record and keeps the buffers.
C7_OneRecordPerConfiguredBuffer ==
  IsCall("aggregateTuyaData") =>
    \A id \in TuyaIds :
      lastCall.before[id] # NoData =>
        IF lastCall.cfg[id] # "absent"
        THEN /\ Cardinality(PointsOf(id)) = 1
             /\ lastCall.after[id] = EmptyTuyaData
        ELSE /\ PointsOf(id) = {}
             /\ lastCall.after[id] = lastCall.before[id]

\* C7 witness: a call found samples of a configured device, wrote its record
\* and emptied its buffers.
C7_Witness ==
  /\ IsCall("aggregateTuyaData")
  /\ \E id \in TuyaIds :
       /\ lastCall.before[id] # NoData
       /\ lastCall.cfg[id] # "absent"
       /\ lastCall.before[id].power # <<>>
       /\ lastCall.before[id].voltage # <<>>
       /\ Cardinality(PointsOf(id)) = 1
       /\ lastCall.after[id] = EmptyTuyaData

(***************************************************************************)
(* The price service: holiday cache, isPeakHour, calculatePrice,           *)
(* storePrices.                                                            *)
(***************************************************************************)
PriceState ==
  [holidays |-> holidays, run |-> priceRun, written |-> written,
   calcLog |-> calcLog, peakLog |-> peakLog, absent |-> absentTariffs,
   fetches |-> holidayFetches, threwLog |-> threwLog,
   failed |-> failedYears]

SetPrice(P) ==
  /\ holidays' = P.holidays
  /\ priceRun' = P.run
  /\ written' = P.written
  /\ calcLog' = P.calcLog
  /\ peakLog' = P.peakLog
  /\ absentTariffs' = P.absent
  /\ holidayFetches' = P.fetches
  /\ threwLog' = P.threwLog
  /\ failedYears' = P.failed

IsWeekend(date) == GetDay(date) = 0 \/ GetDay(date) = 6

\* a test that takes every tariff with components for a dynamic one
IsDynamicAlways(t) == t # "TGE_RAW"

\* tariffType.startsWith("DYNAMIC_")
IsDynamic(t) ==
  t \in {"DYNAMIC_G11", "DYNAMIC_G12", "DYNAMIC_G12W", "DYNAMIC_G12R"}

\* tariffType.toLowerCase(), after .slice(8) for a dynamic tariff
TariffKey(t) ==
  CASE t \in {"G11", "DYNAMIC_G11"} -> "g11"
    [] t \in {"G12", "DYNAMIC_G12"} -> "g12"
    [] t \in {"G12W", "DYNAMIC_G12W"} -> "g12w"
    [] t \in {"G12R", "DYNAMIC_G12R"} -> "g12r"

\* this.holidays.get(year) || []
CachedList(hol, date) ==
  IF hol[GetFullYear(date)].cached THEN hol[GetFullYear(date)].list ELSE {}

\* a holiday service that knows no holiday
IsHolidayNever(hol, date) == FALSE

\* HolidayService.isHoliday, once ensureHolidaysForYear has returned:
\* (this.holidays.get(year) || []).some(isSameDay)
IsHoliday(hol, date) ==
  \E holiday \in CachedList(hol, date) : holiday = date.day

\* does isPeakHour reach ensureHolidaysForYear with nothing cached, so that
\* it waits for the answer of the holiday API?
AwaitsHolidays(hol, date, t) ==
  /\ t \in {"G12W", "DYNAMIC_G12W"}
  /\ ~IsWeekend(date)
  /\ ~hol[GetFullYear(date)].cached

\* isPeakHour, with the cache as isHoliday finds it
IsPeakHour(date, t, hol) ==
  LET hour == GetHours(date)
  IN  IF t \in {"G12", "G12W", "DYNAMIC_G12", "DYNAMIC_G12W"}
      THEN IF /\ t \in {"G12W", "DYNAMIC_G12W"}
              /\ (IsWeekend(date) \/ IsHoliday(hol, date))
           THEN FALSE
           ELSE (hour >= 6 /\ hour < 13) \/ (hour >= 15 /\ hour < 22)
      ELSE IF t \in {"G12R", "DYNAMIC_G12R"}
      THEN (hour >= 7 /\ hour < 13) \/ (hour >= 16 /\ hour < 22)
      ELSE TRUE

Null == <<>>

\* the JavaScript truth value of `tgePrice`: undefined and 0 are falsy
Truthy(tgePrice) == tgePrice # Undef /\ tgePrice[1] # 0

\* (basePrice + ...) * (1 + vat) + oplataHandlowa, basePrice = tgePrice / 1000
DynamicTotal(c, tgePrice) ==
  (tgePrice * 100 + c.oplataSieciowa + c.oplataJakosciowa
     + c.oplataKogeneracyjna) * (100 + c.vat)
  + c.oplataHandlowa * 100

\* (basePrice + akcyza + ...) * (1 + vat)
StaticTotal(c) ==
  (c.basePrice + c.akcyza + c.oplataSieciowa + c.oplataJakosciowa
     + c.oplataKogeneracyjna) * (100 + c.vat)

\* `"peak" in components ? (isPeak ? peak : offPeak) : components`
PickComponents(components, isPeak) ==
  IF "peak" \in DOMAIN components
  THEN IF isPeak THEN components.peak ELSE components.offPeak
  ELSE components

\* calculatePrice: Null, or <<price>>
CalculatePrice(date, t, tgePrice, hol) ==
  IF t = "TGE_RAW"
  THEN IF Truthy(tgePrice) THEN <<tgePrice[1] * 10000>> ELSE Null
  ELSE LET isPeak == IsPeakHour(date, t, hol)
       IN  IF IsDynamic(t)
           THEN IF ~Truthy(tgePrice) THEN Null
                ELSE <<DynamicTotal(
                         PickComponents(dynamicTariffs[TariffKey(t)], isPeak),
                         tgePrice[1])>>
           ELSE <<StaticTotal(
                    PickComponents(staticTariffs[TariffKey(t)], isPeak))>>

MapGet(map, key) == IF key \in DOMAIN map THEN map[key] ELSE Undef

\* a lookup that knows the price of the hour only
ResolveHourly(map, date) == MapGet(map, Format(HourStart(date)))

\* tgePriceMap.get(exactTimestamp) ?? tgePriceMap.get(hourlyTimestamp)
ResolvePrice(map, date) ==
  IF MapGet(map, Format(date)) # Undef
  THEN MapGet(map, Format(date))
  ELSE MapGet(map, Format(HourStart(date)))

\* calculatePrice throws: `"peak" in components` is a TypeError when the
\* configuration has no components for the tariff (a dynamic tariff has
\* returned null before that line when there is no market price)
CalculateThrows(t, tgePrice, absent) ==
  /\ t # "TGE_RAW"
  /\ IF IsDynamic(t)
     THEN Truthy(tgePrice) /\ <<"dynamicTariffs", TariffKey(t)>> \in absent
     ELSE <<"staticTariffs", TariffKey(t)>> \in absent

\* a storePrices in which the error of one tariff ends the whole call
TariffThrewUncaught(P, t) ==
  [P EXCEPT !.threwLog = @ \cup {[tariff |-> t, date |-> P.run.currentDate]},
            !.run.phase = "failed"]

\* the catch block around one tariff: the error is logged, nothing else
TariffThrew(P, t) ==
  [P EXCEPT !.threwLog = @ \cup {[tariff |-> t, date |-> P.run.currentDate]}]

\* One tariff of the Promise.all of a step, from calculatePrice (after the
\* holiday list, if it was waited for) to writePoint or to the catch block.
FinishTariff(P, t) ==
  LET date == P.run.currentDate
      tgePrice == P.run.step.tgePrice
      threw == CalculateThrows(t, tgePrice, P.absent)
      price == IF threw THEN Null
               ELSE CalculatePrice(date, t, tgePrice, P.holidays)
      Q == [P EXCEPT
             !.calcLog =
                IF threw THEN @
                ELSE @ \cup {[tariff |-> t, tgePrice |-> tgePrice,
                              isPeak |-> IF t = "TGE_RAW" THEN Null
                                         ELSE <<IsPeakHour(date, t, P.holidays)>>,
                              price |-> price]},
             !.peakLog =
                IF t = "TGE_RAW" THEN @
                ELSE @ \cup {[tariff |-> t, day |-> date.day,
                              hour |-> GetHours(date),
                              weekend |-> IsWeekend(date),
                              listed |-> date.day \in CachedList(P.holidays, date),
                              result |-> IsPeakHour(date, t, P.holidays)]},
             !.written =
                IF price # Null
                THEN @ (+) SetToBag({[tariff |-> t, date |-> date]})
                ELSE @]
  IN  IF threw THEN TariffThrew(Q, t) ELSE Q

\* the tariffs of a step, in the order of the enum: one that has to wait for
\* the holiday API stays pending, the others run to their end
RECURSIVE StartTariffs(_, _)
StartTariffs(P, i) ==
  IF i > Len(TariffType) THEN P
  ELSE LET t == TariffType[i]
       IN  StartTariffs(
             IF AwaitsHolidays(P.holidays, P.run.currentDate, t)
             THEN [P EXCEPT
                     !.run.pending = @ \cup {t},
                     !.fetches[GetFullYear(P.run.currentDate)] = @ + 1]
             ELSE FinishTariff(P, t),
             i + 1)

\* one turn of the while loop of storePrices: the loop ends, or the market
\* price of the step is looked up, the tariffs of the step are started and,
\* unless one of them waits, the loop moves on
StorePricesTurn(P) ==
  IF ~DateLeq(P.run.currentDate, P.run.endDate)
  THEN [P EXCEPT !.run.phase = "done"]
  ELSE LET tgePrice == ResolvePrice(P.run.tgePriceMap, P.run.currentDate)
           Q == StartTariffs(
                  [P EXCEPT !.run.step = [date |-> P.run.currentDate,
                                          tgePrice |-> tgePrice]], 1)
       IN  IF Q.run.pending = {}
           THEN [Q EXCEPT !.run.currentDate = AddMinutes(@, 15)]
           ELSE Q

\* the answer of the holiday API for the tariff that waits: the cache is
\* set, the tariff runs to its end, and when it was the last one of the
\* step the loop moves on
HolidaysAnswered(P, t, list) ==
  LET year == GetFullYear(P.run.currentDate)
      P1 == [P EXCEPT !.holidays[year] = [cached |-> TRUE, list |-> list],
                      !.run.pending = @ \ {t}]
      P2 == FinishTariff(P1, t)
  IN  IF P2.run.pending = {}
      THEN [P2 EXCEPT !.run.currentDate = AddMinutes(@, 15)]
      ELSE P2

NewRun(from) ==
  [phase |-> "fetching", startDate |-> from, endDate |-> AddDays(from, 1),
   currentDate |-> from, tgePriceMap |-> <<>>, pending |-> {},
   step |-> NoStep]

\* updatePrices at `now`, up to the request of fetchTGEPrices
UpdatePrices(date) ==
  /\ priceRun.phase \in {"idle", "done"}
  /\ priceRun' = NewRun(date)
  /\ written' = EmptyBag
  /\ calcLog' = {}
  /\ peakLog' = {}
  /\ threwLog' = {}
  /\ UNCHANGED <<holidays, absentTariffs, holidayFetches, failedYears>>

\* performInitialPricesUpdate: the iteration of its loop for the day of the
\* last saved price, up to the request of fetchTGEPrices
PerformInitialPricesUpdate(lastSavedPrice) ==
  /\ priceRun.phase = "idle"
  /\ priceRun' = NewRun(StartOfDay(lastSavedPrice))
  /\ written' = EmptyBag
  /\ calcLog' = {}
  /\ peakLog' = {}
  /\ threwLog' = {}
  /\ UNCHANGED <<holidays, absentTariffs, holidayFetches, failedYears>>

\* fetchTGEPrices returns (an error returns []); storePrices builds its map
FetchTGEPricesReturns(tgePrices) ==
  /\ priceRun.phase = "fetching"
  /\ priceRun' = [priceRun EXCEPT !.phase = "storing",
                                  !.tgePriceMap = tgePrices]
  /\ UNCHANGED <<holidays, written, calcLog, peakLog, absentTariffs,
                 holidayFetches, threwLog, failedYears>>

\* the configuration file is reloaded between two runs of the price update
ReloadPriceConfig(absent) ==
  /\ priceRun.phase \in {"idle", "done"}
  /\ absentTariffs' = absent
  /\ UNCHANGED <<holidays, priceRun, written, calcLog, peakLog,
                 holidayFetches, threwLog, failedYears>>

\* storePrices: the next turn of its loop
StorePricesStep ==
  /\ priceRun.phase = "storing"
  /\ priceRun.pending = {}
  /\ SetPrice(StorePricesTurn(PriceState))

\* ensureHolidaysForYear of a waiting tariff: the request succeeds
EnsureHolidaysResolve(t) ==
  /\ priceRun.phase = "storing"
  /\ t \in priceRun.pending
  /\ SetPrice(HolidaysAnswered(PriceState, t,
       HolidayResponse(GetFullYear(priceRun.currentDate))))

\* ensureHolidaysForYear of a waiting tariff: the request fails, [] is cached
EnsureHolidaysReject(t) ==
  /\ priceRun.phase = "storing"
  /\ t \in priceRun.pending
  /\ SetPrice(HolidaysAnswered(
       [PriceState EXCEPT !.failed = @ \cup {GetFullYear(priceRun.currentDate)}],
       t, {}))

OnlyPrices ==
  UNCHANGED <<tuyaVars, tuyaDeviceData, aggVars, reconciled, ledgerVars, mainVars>>

NextPrice ==
  \/ \E date \in UpdateTimes : UpdatePrices(date) /\ OnlyPrices
  \/ \E last \in LastSavedPrices : PerformInitialPricesUpdate(last) /\ OnlyPrices
  \/ \E tgePrices \in TgeResponses : FetchTGEPricesReturns(tgePrices) /\ OnlyPrices
  \/ StorePricesStep /\ OnlyPrices
  \/ \E t \in Tariffs : EnsureHolidaysResolve(t) /\ OnlyPrices
  \/ \E t \in Tariffs : EnsureHolidaysReject(t) /\ OnlyPrices
  \/ \E absent \in PriceConfigs : ReloadPriceConfig(absent) /\ OnlyPrices

SpecPrice == Init /\ [][NextPrice]_vars

(***************************************************************************)
(* Claims about the price service.                                         *)
(***************************************************************************)
\* the tariffs whose price is made from the market price
MarketTariffs ==
  {"TGE_RAW", "DYNAMIC_G11", "DYNAMIC_G12", "DYNAMIC_G12W", "DYNAMIC_G12R"}

\* the time steps of a storePrices call over one day: 96 quarters, both ends
StepsOf(run) == {AddMinutes(run.startDate, 15 * k) : k \in 0..96}

\* C8 (as claimed, for the tariffs that use the market price): when
\* storePrices has returned, it has written no point for a tariff and step
\* for which the price list resolves no market price (neither for the exact
\* time nor for the hour), and exactly one point for every other tariff and
\* step.
C8_OnePointPerResolvableStep ==
  priceRun.phase = "done" =>
    \A t \in MarketTariffs, date \in StepsOf(priceRun) :
      CopiesIn([tariff |-> t, date |-> date], written)
        = IF ResolvePrice(priceRun.tgePriceMap, date) # Undef THEN 1 ELSE 0

\* C9 (as claimed): for TGE_RAW and every dynamic tariff calculatePrice
\* returns null exactly when no market price was supplied, and for TGE_RAW
\* a supplied price p gives p / 1000 (PLN/MWh to PLN/kWh; in the units of
\* the model p * 10000).
C9_NullOnlyWithoutMarketPrice ==
  \A c \in calcLog :
    c.tariff \in MarketTariffs =>
      /\ (c.price = Null) <=> (c.tgePrice = Undef)
      /\ (c.tariff = "TGE_RAW" /\ c.tgePrice # Undef) =>
           c.price = <<c.tgePrice[1] * 10000>>

\* C10: for G12W and DYNAMIC_G12W isPeakHour returns false for every hour
\* of a weekday that is in the cached holiday list.
C10_HolidayIsOffPeak ==
  \A e \in peakLog :
    (e.tariff \in {"G12W", "DYNAMIC_G12W"} /\ e.listed /\ ~e.weekend) =>
      e.result = FALSE

\* C10 witness: isPeakHour has answered false for G12W at an hour between 6
\* and 13 of a weekday that is in the cached holiday list.
C10_Witness ==
  \E e \in peakLog :
    /\ e.tariff = "G12W"
    /\ e.listed
    /\ ~e.weekend
    /\ e.hour >= 6 /\ e.hour < 13
    /\ e.result = FALSE

\* C11 (as claimed): over any sequence of isHoliday calls, the calls that
\* storePrices starts together for one step included, the holiday API is
\* asked at most once for a year, whether the request succeeds or fails.
C11_FetchedOncePerYear == \A y \in Years : holidayFetches[y] <= 1

\* C12 (as claimed): once the holiday cache holds an entry for a year (the
\* fetched list, or the empty list stored on failure), no later step
\* replaces that entry by another one.
C12_CacheEntryIsFinal ==
  [][\A y \in Years : holidays[y].cached => holidays'[y] = holidays[y]]_vars

\* a < b for dates
DateLt(a, b) == DateLeq(a, b) /\ a # b

\* what storePrices is to have written for a tariff at a step at which the
\* calculation of that tariff did not throw: a point, unless the tariff
\* needs a market price and there is none (undefined or 0)
ExpectedPoints(t, date) ==
  IF t \in MarketTariffs /\ ~Truthy(ResolvePrice(priceRun.tgePriceMap, date))
  THEN 0 ELSE 1

\* the tariffs of the step `date` whose calculation has come to its end
Settled(t, date) ==
  \/ DateLt(date, priceRun.currentDate)
  \/ date = priceRun.currentDate /\ priceRun.pending # {}
       /\ t \notin priceRun.pending

\* the steps looked at in a state: all of them once storePrices has
\* returned, before that the step in progress and the one before it (the
\* points of the earlier steps were looked at in the states before)
StepsInView ==
  IF priceRun.phase = "done" THEN StepsOf(priceRun)
  ELSE {date \in {priceRun.currentDate,
                   AddMinutes(priceRun.currentDate, 0 - 15)} :
          /\ DateLeq(priceRun.startDate, date)
          /\ DateLeq(date, priceRun.endDate)}

\* C13: when the calculation of a tariff has thrown at a step of storePrices,
\* the call goes on (it is not ended by the error), every other tariff whose
\* calculation has come to its end has its point at every step, the steps
\* with a throw included, and the tariff that threw has none there.
C13_ThrowIsContained ==
  threwLog # {} =>
    /\ priceRun.phase \in {"storing", "done"}
    /\ priceRun.phase = "done" => ~DateLeq(priceRun.currentDate, priceRun.endDate)
    /\ \A t \in Tariffs, date \in StepsInView :
         Settled(t, date) =>
           CopiesIn([tariff |-> t, date |-> date], written)
             = IF [tariff |-> t, date |-> date] \in threwLog THEN 0
               ELSE ExpectedPoints(t, date)

\* C13 witness: storePrices has returned after the calculation of G12 threw
\* at its first step; G11 has its point at that step and at the last step,
\* G12 has none.
C13_Witness ==
  /\ priceRun.phase = "done"
  /\ [tariff |-> "G12", date |-> priceRun.startDate] \in threwLog
  /\ CopiesIn([tariff |-> "G12", date |-> priceRun.startDate], written) = 0
  /\ CopiesIn([tariff |-> "G11", date |-> priceRun.startDate], written) = 1
  /\ CopiesIn([tariff |-> "G11", date |-> priceRun.endDate], written) = 1

\* the tariffs whose price is made from the components of the configuration
\* alone
StaticTariffs == {"G11", "G12", "G12W", "G12R"}

\* C26: for a static tariff calculatePrice returns (base price + akcyza +
\* network fee + quality fee + cogeneration fee) * (1 + VAT) of the fee set
\* that isPeakHour chose, with no market price, with the market price 0 and
\* with any other market price alike.
C26_StaticIgnoresMarketPrice ==
  /\ \A c \in calcLog :
       c.tariff \in StaticTariffs =>
         LET components == staticTariffs[TariffKey(c.tariff)]
             fees == IF c.tariff = "G11" THEN components
                     ELSE IF c.isPeak[1] THEN components.peak
                     ELSE components.offPeak
         IN  c.price = <<(fees.basePrice + fees.akcyza + fees.oplataSieciowa
                            + fees.oplataJakosciowa + fees.oplataKogeneracyjna)
                           * (100 + fees.vat)>>
  /\ \A c, d \in calcLog :
       (c.tariff \in StaticTariffs /\ c.tariff = d.tariff
          /\ c.isPeak = d.isPeak) => c.price = d.price

\* C26 witness: G12 has been calculated at peak hours without a market
\* price, with the market price 0 and with a negative one, and at off-peak
\* hours with a positive one.
C26_Witness ==
  /\ \E c \in calcLog :
       c.tariff = "G12" /\ c.isPeak = <<TRUE>> /\ c.tgePrice = Undef
  /\ \E c \in calcLog :
       c.tariff = "G12" /\ c.isPeak = <<TRUE>> /\ c.tgePrice = <<0>>
  /\ \E c \in calcLog :
       c.tariff = "G12" /\ c.isPeak = <<TRUE>> /\ c.tgePrice = <<0 - 50>>
  /\ \E c \in calcLog :
       c.tariff = "G12" /\ c.isPeak = <<FALSE>> /\ c.tgePrice = <<400>>

\* C27: the market price storePrices hands to calculatePrice for a step is
\* the price stamped with the time of the step when the list has one,
\* otherwise the price stamped with the start of the step's hour, and
\* nothing when the list has neither.
C27_ExactElseHourly ==
  priceRun.step # NoStep =>
    LET date == priceRun.step.date
        exact == <<date.day, date.min \div 60, date.min % 60>>
        hourly == <<date.day, date.min \div 60, 0>>
        map == priceRun.tgePriceMap
    IN  priceRun.step.tgePrice
          = IF exact \in DOMAIN map THEN map[exact]
            ELSE IF hourly \in DOMAIN map THEN map[hourly]
            ELSE Undef

\* C27 witness: at a step a quarter past the hour the list has a price for
\* the quarter that differs from the price of the hour, and the price of the
\* quarter was used.
C27_Witness ==
  /\ priceRun.step # NoStep
  /\ priceRun.step.date.min % 60 = 15
  /\ Format(priceRun.step.date) \in DOMAIN priceRun.tgePriceMap
  /\ Format(HourStart(priceRun.step.date)) \in DOMAIN priceRun.tgePriceMap
  /\ priceRun.tgePriceMap[Format(priceRun.step.date)]
       # priceRun.tgePriceMap[Format(HourStart(priceRun.step.date))]
  /\ priceRun.step.tgePrice = priceRun.tgePriceMap[Format(priceRun.step.date)]

\* the days a holiday can fall on
HolidayDays == (0 - 6)..6

\* C28 (as claimed): once the request for the holidays of a year has failed,
\* isHoliday answers false for every date of that year.
C28_FailedYearHasNoHoliday ==
  \A y \in failedYears, d \in HolidayDays :
    LET date == [day |-> d, min |-> 0]
    IN  GetFullYear(date) = y => ~IsHoliday(holidays, date)

\* C39 (as claimed): every point storePrices has written carries a time on
\* a quarter of an hour (minute 0, 15, 30 or 45).  updatePrices starts the
\* steps at `new Date()`, five minutes past the hour.
C39_PointsOnQuarterHours ==
  \A p \in BagToSet(written) : p.date.min % 15 = 0

(***************************************************************************)
(* performInitialPricesUpdate with its loop over the days: the ranges it   *)
(* has passed to storePrices so far and the points written in all of them. *)
(***************************************************************************)
OnlyInitial ==
  UNCHANGED <<tuyaVars, tuyaDeviceData, aggVars, reconciled, rawWallConnector,
              haaLedger, mainVars>>

\* the call, up to the request of fetchTGEPrices of the first day
InitialBegin(lastSavedPrice, at) ==
  /\ initialUpdate = NoUpdate
  /\ DateLeq(StartOfDay(lastSavedPrice), at)
  /\ PerformInitialPricesUpdate(lastSavedPrice)
  /\ initialUpdate' = [now |-> at, ranges |-> <<priceRun'>>, written |-> EmptyBag]

\* a step of storePrices within the call: its points are added
InitialWrites ==
  /\ initialUpdate # NoUpdate
  /\ initialUpdate' = [initialUpdate EXCEPT !.written = @ (+) (written' (-) written)]

\* `currentDate = endDate`, and the next turn of `while (currentDate <= now)`
\* up to the request of fetchTGEPrices
InitialNextDay ==
  /\ initialUpdate # NoUpdate
  /\ priceRun.phase = "done"
  /\ DateLeq(priceRun.endDate, initialUpdate.now)
  /\ priceRun' = NewRun(priceRun.endDate)
  /\ written' = EmptyBag
  /\ calcLog' = {}
  /\ peakLog' = {}
  /\ threwLog' = {}
  /\ initialUpdate' = [initialUpdate EXCEPT !.ranges = Append(@, priceRun')]
  /\ UNCHANGED <<holidays, absentTariffs, holidayFetches, failedYears>>

NextInitial ==
  \/ \E last \in LastSavedPrices, at \in InitialNows :
       InitialBegin(last, at) /\ OnlyInitial
  \/ \E tgePrices \in TgeResponses :
       FetchTGEPricesReturns(tgePrices) /\ UNCHANGED initialUpdate /\ OnlyInitial
  \/ StorePricesStep /\ InitialWrites /\ OnlyInitial
  \/ \E t \in Tariffs : EnsureHolidaysResolve(t) /\ InitialWrites /\ OnlyInitial
  \/ \E t \in Tariffs : EnsureHolidaysReject(t) /\ InitialWrites /\ OnlyInitial
  \/ InitialNextDay /\ OnlyInitial

SpecInitial == Init /\ [][NextInitial]_vars

\* the loop of performInitialPricesUpdate has ended
InitialDone ==
  /\ initialUpdate # NoUpdate
  /\ priceRun.phase = "done"
  /\ ~DateLeq(priceRun.endDate, initialUpdate.now)

\* the quarters of an hour from the start of the first range to the end of
\* the last one
InitialSteps ==
  LET first == initialUpdate.ranges[1].startDate
      last == initialUpdate.ranges[Len(initialUpdate.ranges)].endDate
  IN  {AddMinutes(first, 15 * k) :
         k \in 0..(96 * (last.day - first.day))}

\* C38 (as claimed, for the tariffs that need no market price): over the
\* ranges performInitialPricesUpdate passes to storePrices no step is
\* written twice, and when the loop has ended every step from the start of
\* the first range to the end of the last one has been written.  Each range
\* ends on the midnight the next one starts on, and storePrices writes both
\* ends of its range.
C38_EachStepWrittenOnce ==
  initialUpdate # NoUpdate =>
    /\ \A p \in BagToSet(initialUpdate.written) :
         p.tariff \in StaticTariffs => CopiesIn(p, initialUpdate.written) = 1
    /\ InitialDone =>
         \A t \in StaticTariffs, date \in InitialSteps :
           BagIn([tariff |-> t, date |-> date], initialUpdate.written)

(***************************************************************************)
(* The start of the program (the callback of app.listen) and the power     *)
(* meter service.                                                          *)
(***************************************************************************)
\* the greatest element of a set of timestamps
MaxOf(S) == CHOOSE x \in S : \A y \in S : y <= x

\* does the source offer a reading later than the last persisted point?
OffersNewer(pm) ==
  \E r \in pm.offered : pm.persisted = {} \/ r > MaxOf(pm.persisted)

\* getLastSavedReading: the time of the last raw_power_meter point; the
\* start of the day 30 days ago when there is none or the query fails
GetLastSavedReading(pm, queryOk) ==
  IF queryOk /\ pm.persisted # {} THEN MaxOf(pm.persisted) ELSE ThirtyDaysAgo

\* updatePowerMeterData is called: getLastSavedReading sends its query
PmBegin(pm) ==
  [pm EXCEPT !.pc = "query", !.wrote = {}, !.newer = OffersNewer(pm),
             !.queryFailed = FALSE]

\* an update that stores every reading of the day fetched
AllReadings(pm) == {r \in pm.offered : PmStartOfDay(r) = pm.currentDate}

\* readings.filter(timestamp > lastReading) of the day fetched
ValidReadings(pm) ==
  {r \in pm.offered :
     PmStartOfDay(r) = pm.currentDate /\ r > pm.lastReading}

\* isBefore(currentDate, now): the loop goes on, or the update is complete
PmLoop(pm) ==
  [pm EXCEPT !.pc = IF pm.currentDate < PmNow THEN "fetch" ELSE "done"]

\* the callback of app.listen goes on when the update it awaits has returned
AwaitedBy(st, pm) ==
  IF st.pc = "updatePowerMeterData" /\ pm.pc = "done"
  THEN [st EXCEPT !.pc = "performInitialPricesUpdate"]
  ELSE st

\* app.listen callback: loadConfig reads the file, setupInfluxDB ends the
\* process when the influxdb section is incomplete
StartupLoadConfig(cfg) ==
  /\ startup.pc = "loadConfig"
  /\ startup' = [startup EXCEPT !.config = cfg,
                                !.pc = IF cfg.influxdb THEN "init" ELSE "exited"]
  /\ UNCHANGED powerMeter

\* app.listen callback, from initHAAService to the call of
\* updatePowerMeterData: initPowerMeterService throws when a field of the
\* powerMeter section is empty or the section is missing, and the promise of
\* the callback is rejected
StartupInit ==
  /\ startup.pc = "init"
  /\ IF startup.config.powerMeter = "ok"
     THEN /\ startup' = [startup EXCEPT
                           !.initialised = {"haa", "powerMeter", "price"},
                           !.pc = "updatePowerMeterData"]
          /\ powerMeter' = PmBegin(powerMeter)
     ELSE /\ startup' = [startup EXCEPT !.initialised = {"haa"},
                                        !.pc = "rejected"]
          /\ UNCHANGED powerMeter

\* app.listen callback, from performInitialPricesUpdate (which catches its
\* errors) to the end: the three cron schedules are registered
StartupSchedule ==
  /\ startup.pc = "performInitialPricesUpdate"
  /\ startup' = [startup EXCEPT
                   !.schedules = {"aggregateHAAData", "updatePowerMeterData",
                                  "updatePrices"},
                   !.pc = "running"]
  /\ UNCHANGED powerMeter

\* cron "5,35 * * * *": updatePowerMeterData
CronUpdatePowerMeterData ==
  /\ "updatePowerMeterData" \in startup.schedules
  /\ powerMeter.pc = "done"
  /\ powerMeter' = PmBegin(powerMeter)
  /\ UNCHANGED startup

\* the query of getLastSavedReading returns or fails; loginToPowerMeter is
\* called
PmLastReading(queryOk) ==
  /\ powerMeter.pc = "query"
  /\ LET lastReading == GetLastSavedReading(powerMeter, queryOk)
     IN  powerMeter' = [powerMeter EXCEPT
                          !.lastReading = lastReading,
                          !.currentDate = PmStartOfDay(lastReading),
                          !.queryFailed = ~queryOk,
                          !.pc = "login"]
  /\ UNCHANGED startup

\* loginToPowerMeter returns, or throws and the update ends in its catch
PmLogin(ok) ==
  /\ powerMeter.pc = "login"
  /\ powerMeter' = IF ok THEN PmLoop(powerMeter)
                   ELSE [powerMeter EXCEPT !.pc = "done"]
  /\ startup' = AwaitedBy(startup, powerMeter')

\* fetchDailyData returns for the day: the valid readings are stored and
\* the loop moves to the next day; or it throws and the update ends
PmFetchDay(ok) ==
  /\ powerMeter.pc = "fetch"
  /\ powerMeter' =
       IF ok
       THEN PmLoop([powerMeter EXCEPT
                      !.persisted = @ \cup ValidReadings(powerMeter),
                      !.wrote = @ \cup ValidReadings(powerMeter),
                      !.currentDate = @ + SlotsPerDay])
       ELSE [powerMeter EXCEPT !.pc = "done"]
  /\ startup' = AwaitedBy(startup, powerMeter')

\* the operator's API has a new reading
SourcePublishes(r) ==
  /\ r \notin powerMeter.offered
  /\ powerMeter' = [powerMeter EXCEPT
                      !.offered = @ \cup {r},
                      !.newer = @ \/ powerMeter.pc \in {"query", "login", "fetch"}]
  /\ UNCHANGED startup

OnlyMain ==
  /\ lastCall' = NoCall
  /\ UNCHANGED <<tuyaVars, tuyaDeviceData, bufVars, priceVars, reconciled,
               ledgerVars>>

NextMain ==
  \/ \E cfg \in MainConfigs : StartupLoadConfig(cfg) /\ OnlyMain
  \/ StartupInit /\ OnlyMain
  \/ StartupSchedule /\ OnlyMain
  \/ CronUpdatePowerMeterData /\ OnlyMain
  \/ \E queryOk \in BOOLEAN : PmLastReading(queryOk) /\ OnlyMain
  \/ \E ok \in BOOLEAN : PmLogin(ok) /\ OnlyMain
  \/ \E ok \in BOOLEAN : PmFetchDay(ok) /\ OnlyMain
  \/ \E r \in PmTimestamps : SourcePublishes(r) /\ OnlyMain

SpecMain == Init /\ [][NextMain]_vars

\* C29 (as claimed): when the callback of app.listen has come to its end
\* with a powerMeter section that lacks a required field, the HAA service
\* and the price service are initialised and the HAA aggregation and the
\* price update are scheduled.
C29_OnlyPowerMeterDisabled ==
  (/\ startup.pc \in {"rejected", "running"}
   /\ startup.config.powerMeter # "ok") =>
    /\ {"haa", "price"} \subseteq startup.initialised
    /\ {"aggregateHAAData", "updatePrices"} \subseteq startup.schedules

\* C30 (as claimed): an updatePowerMeterData run during which the source
\* offers no reading later than the last persisted raw_power_meter point
\* writes no point.
C30_RerunWritesNothing ==
  (powerMeter.pc = "done" /\ ~powerMeter.newer) => powerMeter.wrote = {}

\* C30 (amended): updatePowerMeterData writes only readings later than the
\* time getLastSavedReading has returned, and a run whose query for the
\* last persisted point succeeded, and during which the source offers no
\* reading later than that point, writes no point.
C30_StoresOnlyNewerThanLastReading ==
  /\ \A r \in powerMeter.wrote : r > powerMeter.lastReading
  /\ (powerMeter.pc = "done" /\ ~powerMeter.newer /\ ~powerMeter.queryFailed)
       => powerMeter.wrote = {}

\* C30 witness: an update has gone through all days after an earlier one
\* had stored what the source offers, and has written nothing.
C30_Witness ==
  /\ powerMeter.pc = "done"
  /\ powerMeter.currentDate >= PmNow
  /\ ~powerMeter.queryFailed
  /\ powerMeter.persisted # {}
  /\ powerMeter.offered = powerMeter.persisted
  /\ powerMeter.lastReading = MaxOf(powerMeter.persisted)
  /\ powerMeter.wrote = {}

====
